---- MODULE Spec2Model ----
(***************************************************************************)
(* A model of fenn.vision.color_mode (ensure_color_mode and its four       *)
(* primitive transforms) over a small model of numpy arrays: a heap of     *)
(* flat buffers and array descriptors (buffer, shape, strides, offset,     *)
(* dtype), so that copies and views are different things.  float32         *)
(* arithmetic is modelled bit-exactly (round to nearest, ties to even).    *)
(***************************************************************************)
EXTENDS Integers, Sequences, FiniteSets, TLC

(***************************************************************************)
(* Bounds of the model.                                                    *)
(***************************************************************************)
MaxN == 1
MaxH == 2
MaxW == 2
MaxSeed == 2
MaxTarget == 3
MaxOutSeed == 1
MaxServices == 3
MaxRegistry == 3

(***************************************************************************)
(* IEEE-754 binary32.  A float is <<s, m, e>>: sign s in {1,-1}, and       *)
(* either m = 0 (zero) or 2^23 <= m < 2^24, with value s * m * 2^e.        *)
(* Stored in an array it is its bit pattern, negated for negative floats.  *)
(* Subnormals, infinities and NaN do not arise from the modelled inputs.   *)
(***************************************************************************)
Abs(n) == IF n < 0 THEN -n ELSE n

Sign(n) == IF n < 0 THEN -1 ELSE 1

BitLen(n) ==
  CHOOSE k \in 0..31 : (k = 31 \/ n < 2^k) /\ (k = 0 \/ n >= 2^(k-1))

FZero == <<1, 0, 0>>

\* n / 2^sh rounded to the nearest integer, ties to even
RoundShift(n, sh) ==
  IF sh = 0 THEN n
  ELSE LET q == n \div 2^sh
           rem == n % 2^sh
           half == 2^(sh-1)
       IN IF rem > half \/ (rem = half /\ q % 2 = 1) THEN q + 1 ELSE q

\* the float s * q * 2^e for a rounded q <= 2^24
Renorm(s, q, e) ==
  IF q = 0 THEN FZero
  ELSE IF q = 2^24 THEN <<s, 2^23, e + 1>>
  ELSE <<s, q, e>>

\* astype(np.float32) of an integer
IntToF32(v) ==
  IF v = 0 THEN FZero
  ELSE LET L == BitLen(Abs(v))
       IN IF L <= 24 THEN <<Sign(v), Abs(v) * 2^(24-L), L - 24>>
          ELSE Renorm(Sign(v), RoundShift(Abs(v), L - 24), L - 24)

\* float32 * float32: the exact 48-bit product as Hi * 2^24 + Lo, rounded once
F32Mul(a, b) ==
  IF a[2] = 0 \/ b[2] = 0 THEN FZero
  ELSE LET ah == a[2] \div 4096
           al == a[2] % 4096
           bh == b[2] \div 4096
           bl == b[2] % 4096
           mid == ah * bl + al * bh
           t == al * bl + (mid % 4096) * 4096
           Lo == t % 2^24
           Hi == ah * bh + (mid \div 4096) + (t \div 2^24)
           s == a[1] * b[1]
           e == a[3] + b[3]
       IN IF Hi >= 2^23
          THEN Renorm(s, IF Lo > 2^23 \/ (Lo = 2^23 /\ Hi % 2 = 1)
                         THEN Hi + 1 ELSE Hi, e + 24)
          ELSE LET q == Hi * 2 + (Lo \div 2^23)
                   rem == Lo % 2^23
               IN Renorm(s, IF rem > 2^22 \/ (rem = 2^22 /\ q % 2 = 1)
                            THEN q + 1 ELSE q, e + 23)

\* float32 + float32, |a| exponent >= |b| exponent: three extra bits
\* (guard, round, sticky) are kept below a's mantissa
F32AddOrdered(a, b) ==
  LET d == a[3] - b[3]
      X == a[2] * 8
      Y0 == IF d >= 27 THEN 0 ELSE (b[2] * 8) \div 2^d
      sticky == IF d >= 27 THEN TRUE ELSE (b[2] * 8) % 2^d # 0
      Y == IF sticky /\ Y0 % 2 = 0 THEN Y0 + 1 ELSE Y0
      S == a[1] * X + b[1] * Y
      L == BitLen(Abs(S))
  IN IF S = 0 THEN FZero
     ELSE IF L >= 24
     THEN Renorm(Sign(S), RoundShift(Abs(S), L - 24), a[3] - 3 + (L - 24))
     ELSE <<Sign(S), Abs(S) * 2^(24-L), a[3] - 3 - (24 - L)>>

F32Add(a, b) ==
  IF a[2] = 0 THEN b
  ELSE IF b[2] = 0 THEN a
  ELSE IF a[3] >= b[3] THEN F32AddOrdered(a, b) ELSE F32AddOrdered(b, a)

\* the C cast of a float to an integer type: truncation toward zero
F32Trunc(a) ==
  IF a[2] = 0 THEN 0
  ELSE IF a[3] >= 0 THEN a[1] * a[2] * 2^(a[3])
  ELSE IF a[3] <= -24 THEN 0
  ELSE a[1] * (a[2] \div 2^(-a[3]))

\* bit pattern of a float (negated when the float is negative)
F32Bits(a) ==
  IF a[2] = 0 THEN 0
  ELSE a[1] * ((a[3] + 150) * 2^23 + (a[2] - 2^23))

\* a < b
F32Less(a, b) ==
  IF a[2] = 0 THEN b[2] # 0 /\ b[1] = 1
  ELSE IF b[2] = 0 THEN a[1] = -1
  ELSE IF a[1] # b[1] THEN a[1] = -1
  ELSE IF a[1] = 1 THEN a[3] < b[3] \/ (a[3] = b[3] /\ a[2] < b[2])
  ELSE a[3] > b[3] \/ (a[3] = b[3] /\ a[2] > b[2])

\* long division: n more quotient bits of r / d below the bits in q
RECURSIVE DivStep(_, _, _, _)
DivStep(r, d, n, q) ==
  IF n = 0 THEN <<q, r>>
  ELSE IF 2 * r >= d THEN DivStep(2 * r - d, d, n - 1, 2 * q + 1)
  ELSE DivStep(2 * r, d, n - 1, 2 * q)

\* float32 / float32, b nonzero: 25 fraction bits of the quotient of the
\* mantissas and a sticky bit for the remainder, rounded once
F32Div(a, b) ==
  IF a[2] = 0 THEN FZero
  ELSE LET qr == DivStep(a[2] % b[2], b[2], 25, a[2] \div b[2])
           n == 2 * qr[1] + (IF qr[2] = 0 THEN 0 ELSE 1)
           sh == BitLen(n) - 24
       IN Renorm(a[1] * b[1], RoundShift(n, sh), a[3] - b[3] - 26 + sh)

F32OfBits(b) ==
  IF b = 0 THEN FZero
  ELSE <<Sign(b), 2^23 + (Abs(b) % 2^23), (Abs(b) \div 2^23) - 150>>

(***************************************************************************)
(* dtypes: numpy's dtype.kind, item size in bits, and np.iinfo(dtype).max. *)
(***************************************************************************)
DTypes == {"uint8", "uint16", "int16", "float32"}

\* the dtypes of the batches given to resize_batch
ResizeDTypes == DTypes \cup {"int32"}

Kind(dtype) ==
  CASE dtype = "uint8" -> "u"
    [] dtype = "uint16" -> "u"
    [] dtype = "int16" -> "i"
    [] dtype = "int32" -> "i"
    [] dtype = "float32" -> "f"

Bits(dtype) ==
  CASE dtype = "uint8" -> 8
    [] dtype = "uint16" -> 16
    [] dtype = "int16" -> 16
    [] dtype = "int32" -> 32
    [] dtype = "float32" -> 32

IInfoMax(dtype) == IF Kind(dtype) = "i" THEN 2 * (2^(Bits(dtype) - 2) - 1) + 1
                   ELSE 2^(Bits(dtype)) - 1

IInfoMin(dtype) == IF Kind(dtype) = "i" THEN -IInfoMax(dtype) - 1 ELSE 0

\* an element of an array of this dtype, read as float32 (astype(np.float32))
AsF32(dtype, v) == IF Kind(dtype) = "f" THEN F32OfBits(v) ELSE IntToF32(v)

\* a slip: the float is rounded to the nearest integer instead of truncated
FromF32RoundNearest(dtype, f) ==
  IF Kind(dtype) = "f" THEN F32Bits(f)
  ELSE IF f[2] = 0 THEN 0
  ELSE IF f[3] >= 0 THEN f[1] * f[2] * 2^(f[3])
  ELSE IF f[3] < -24 THEN 0
  ELSE f[1] * RoundShift(f[2], -f[3])

\* a float32 stored into an array of this dtype (astype(dtype)); the cast of
\* a value outside an integer dtype's range is undefined and does not arise
\* from luminances of in-range pixels
FromF32(dtype, f) == IF Kind(dtype) = "f" THEN F32Bits(f) ELSE F32Trunc(f)

(***************************************************************************)
(* numpy arrays.  mem is the heap, a sequence of flat buffers; an array is *)
(* a descriptor [buf, shape, strides, offset, dtype] (strides and offset   *)
(* in elements).  Two arrays share storage iff they name the same buffer.  *)
(***************************************************************************)
RECURSIVE Prod(_)
Prod(s) == IF s = <<>> THEN 1 ELSE Head(s) * Prod(Tail(s))

RECURSIVE Dot(_, _)
Dot(s, t) == IF s = <<>> THEN 0 ELSE Head(s) * Head(t) + Dot(Tail(s), Tail(t))

Size(shape) == Prod(shape)

\* strides of a C-contiguous array
CStrides(shape) ==
  [i \in 1..Len(shape) |-> Prod(SubSeq(shape, i + 1, Len(shape)))]

\* the index tuple (0-based entries) of the k-th element in C order, k >= 0
Unravel(k, shape) ==
  [i \in 1..Len(shape) |-> (k \div CStrides(shape)[i]) % shape[i]]

Indices(shape) == {Unravel(k, shape) : k \in 0..(Size(shape) - 1)}

Addr(a, idx) == a.offset + Dot(idx, a.strides) + 1

At(m, a, idx) == m[a.buf][Addr(a, idx)]

\* the elements of a in C order (what np.testing.assert_array_equal compares)
Flat(m, a) == [k \in 1..Size(a.shape) |-> At(m, a, Unravel(k - 1, a.shape))]

\* a freshly allocated C-contiguous array holding data
Alloc(m, shape, dtype, data) ==
  [mem |-> Append(m, data),
   arr |-> [type |-> "ndarray", buf |-> Len(m) + 1, shape |-> shape,
            strides |-> CStrides(shape), offset |-> 0, dtype |-> dtype]]

\* a slip: the array itself is handed back instead of a copy
CopyArrayReturnsSelf(m, a) == [mem |-> m, arr |-> a]

\* ndarray.copy()
CopyArray(m, a) == Alloc(m, a.shape, a.dtype, Flat(m, a))

\* Python's negative axis: axis -1 of a rank-r array is axis r (1-based here)
LastAxis(a) == Len(a.shape)

\* np.stack([a, a, a], axis=-1)
Stack3Last(m, a) ==
  Alloc(m, Append(a.shape, 3), a.dtype,
        [k \in 1..Size(Append(a.shape, 3)) |->
           At(m, a, SubSeq(Unravel(k - 1, Append(a.shape, 3)), 1,
                           Len(a.shape)))])

\* np.repeat(a, 3, axis=axis): the element at idx of the result
Repeat3At(m, a, axis, idx) ==
  At(m, a, [i \in DOMAIN idx |-> IF i = axis THEN idx[i] \div 3 ELSE idx[i]])

Repeat3(m, a, axis) ==
  Alloc(m, [a.shape EXCEPT ![axis] = 3 * @], a.dtype,
        [k \in 1..Size([a.shape EXCEPT ![axis] = 3 * @]) |->
           Repeat3At(m, a, axis,
                     Unravel(k - 1, [a.shape EXCEPT ![axis] = 3 * @]))])

\* np.full(shape, value, dtype=dtype)
Full(m, shape, value, dtype) ==
  Alloc(m, shape, dtype, [k \in 1..Size(shape) |-> value])

\* np.concatenate([a, b], axis=axis): the element at idx of the result
ConcatenateAt(m, a, b, axis, idx) ==
  IF idx[axis] < a.shape[axis] THEN At(m, a, idx)
  ELSE At(m, b, [i \in DOMAIN idx |->
                   IF i = axis THEN idx[i] - a.shape[axis] ELSE idx[i]])

Concatenate(m, a, b, axis) ==
  Alloc(m, [a.shape EXCEPT ![axis] = @ + b.shape[axis]], a.dtype,
        [k \in 1..Size([a.shape EXCEPT ![axis] = @ + b.shape[axis]]) |->
           ConcatenateAt(m, a, b, axis,
             Unravel(k - 1, [a.shape EXCEPT ![axis] = @ + b.shape[axis]]))])

\* basic slicing a[..., :n, ...] along axis: a view on the same buffer
SliceFirst(m, a, axis, n) ==
  [mem |-> m,
   arr |-> [a EXCEPT !.shape[axis] = IF @ < n THEN @ ELSE n]]

\* the sequence s without its i-th entry
Without(s, i) == SubSeq(s, 1, i - 1) \o SubSeq(s, i + 1, Len(s))

\* the sequence s with v inserted so that it becomes the i-th entry
Insert(s, i, v) == SubSeq(s, 1, i - 1) \o <<v>> \o SubSeq(s, i, Len(s))

(***************************************************************************)
(* Mode strings are sequences of characters, so that str.upper() is        *)
(* computed character by character.                                        *)
(***************************************************************************)
RGB == <<"R", "G", "B">>

RGBA == <<"R", "G", "B", "A">>

GRAY == <<"G", "R", "A", "Y">>

L == <<"L">>

UpperChar(c) ==
  CASE c = "r" -> "R"
    [] c = "g" -> "G"
    [] c = "b" -> "B"
    [] c = "a" -> "A"
    [] c = "y" -> "Y"
    [] c = "l" -> "L"
    [] OTHER -> c

\* a slip: the mode string is compared as given, without upper()
UpperIdentity(s) == s

Upper(s) == [i \in 1..Len(s) |-> UpperChar(s[i])]

(***************************************************************************)
(* fenn.vision.vision_utils.detect_format is not among the sources; it is  *)
(* modelled from the specification (section 4.1).  The axis whose size is  *)
(* in {1,3,4} is the channel axis; the tie-break for a batch where both    *)
(* axis 1 and axis 3 qualify is left open there, so the detector's answer  *)
(* is any of the candidates.  "error" stands for the FormatError.          *)
(***************************************************************************)
None == "None"

ChannelSizes == {1, 3, 4}

FormatError == [ok |-> FALSE, is_grayscale |-> FALSE, channel_location |-> None]

DetectFormat(shape) ==
  IF Len(shape) = 3
  THEN {[ok |-> TRUE, is_grayscale |-> TRUE, channel_location |-> None]}
  ELSE IF Len(shape) = 4
  THEN LET first == IF shape[2] \in ChannelSizes
                    THEN {[ok |-> TRUE, is_grayscale |-> shape[2] = 1,
                           channel_location |-> "first"]}
                    ELSE {}
           last == IF shape[4] \in ChannelSizes
                   THEN {[ok |-> TRUE, is_grayscale |-> shape[4] = 1,
                          channel_location |-> "last"]}
                   ELSE {}
       IN IF first \cup last = {} THEN {FormatError} ELSE first \cup last
  ELSE {FormatError}

(***************************************************************************)
(* The four primitive transforms.  Each returns [mem, arr]: the heap after *)
(* the call and the descriptor of the returned array.                      *)
(***************************************************************************)
\* a slip: a channels-first batch is repeated along its last axis
GrayToRgbRepeatLast(m, array, channel_location) ==
  IF channel_location = None THEN Stack3Last(m, array)
  ELSE Repeat3(m, array, LastAxis(array))

\* a slip: the channel axis of an (N, H, W) batch is inserted at axis 1
GrayToRgbStackFirst(m, array, channel_location) ==
  IF channel_location = None
  THEN Repeat3(m, [type |-> array.type, buf |-> array.buf,
                   shape |-> Insert(array.shape, 2, 1),
                   strides |-> Insert(array.strides, 2, 0),
                   offset |-> array.offset, dtype |-> array.dtype], 2)
  ELSE IF channel_location = "last" THEN Repeat3(m, array, LastAxis(array))
  ELSE Repeat3(m, array, 2)

GrayToRgb(m, array, channel_location) ==
  IF channel_location = None THEN Stack3Last(m, array)
  ELSE IF channel_location = "last" THEN Repeat3(m, array, LastAxis(array))
  ELSE Repeat3(m, array, 2)

\* a slip: the alpha value of uint8 is used for every dtype
AlphaValueAlways255(dtype) == 255

AlphaValue(dtype) ==
  IF dtype = "uint8" THEN 255
  ELSE IF Kind(dtype) = "f" THEN F32Bits(<<1, 2^23, -23>>)
  ELSE IInfoMax(dtype)

RgbToRgba(m, array, channel_location) ==
  LET alpha_value == AlphaValue(array.dtype)
      axis == IF channel_location = "last" THEN LastAxis(array) ELSE 2
      alpha == Full(m, [array.shape EXCEPT ![axis] = 1], alpha_value,
                    array.dtype)
  IN Concatenate(alpha.mem, array, alpha.arr, axis)

\* a slip: the slice keeps the last three channels instead of the first three
RgbaToRgbLastThree(m, array, channel_location) ==
  [mem |-> m,
   arr |-> [type |-> array.type, buf |-> array.buf,
            shape |-> [i \in DOMAIN array.shape |->
                         IF i = (IF channel_location = "last"
                                 THEN LastAxis(array) ELSE 2)
                         THEN 3 ELSE array.shape[i]],
            strides |-> array.strides,
            offset |-> array.offset
                       + array.strides[IF channel_location = "last"
                                       THEN LastAxis(array) ELSE 2],
            dtype |-> array.dtype]]

\* a slip: the slice is taken along axis 1 whatever the layout
RgbaToRgbAlwaysFirst(m, array, channel_location) == SliceFirst(m, array, 2, 3)

RgbaToRgb(m, array, channel_location) ==
  IF channel_location = "last" THEN SliceFirst(m, array, LastAxis(array), 3)
  ELSE SliceFirst(m, array, 2, 3)

\* np.array([0.299, 0.587, 0.114], dtype=np.float32)
Weights == << <<1, 10032775, -25>>, <<1, 9848226, -24>>, <<1, 15300821, -27>> >>

\* a slip: the blue term is left out of the sum
LuminanceWithoutBlue(dtype, r, g, b) ==
  F32Add(F32Mul(AsF32(dtype, r), Weights[1]),
         F32Mul(AsF32(dtype, g), Weights[2]))

\* np.sum over three float32 products, added in order
Luminance(dtype, r, g, b) ==
  F32Add(F32Add(F32Mul(AsF32(dtype, r), Weights[1]),
                F32Mul(AsF32(dtype, g), Weights[2])),
         F32Mul(AsF32(dtype, b), Weights[3]))

\* the grayscale value at idx of the result: the weighted sum along axis
\* of array, cast back to array's dtype
GrayAt(m, array, axis, idx) ==
  FromF32(array.dtype,
          Luminance(array.dtype,
                    At(m, array, Insert(idx, axis, 0)),
                    At(m, array, Insert(idx, axis, 1)),
                    At(m, array, Insert(idx, axis, 2))))

\* the axis np.sum reduces: -1 for channels last, 1 otherwise
GrayAxis(array, channel_location) ==
  IF channel_location = "last" THEN LastAxis(array) ELSE 2

\* a slip: the sum keeps the reduced axis (keepdims=True)
RgbToGrayKeepDims(m, array, channel_location) ==
  Alloc(m, [i \in DOMAIN array.shape |->
              IF i = GrayAxis(array, channel_location) THEN 1
              ELSE array.shape[i]],
        array.dtype,
        [k \in 1..Size(Without(array.shape,
                               GrayAxis(array, channel_location))) |->
           GrayAt(m, array, GrayAxis(array, channel_location),
                  Unravel(k - 1, Without(array.shape,
                                         GrayAxis(array, channel_location))))])

\* a slip: the float32 sum is returned without the cast back to the dtype
RgbToGrayNoCastBack(m, array, channel_location) ==
  Alloc(m, Without(array.shape, GrayAxis(array, channel_location)),
        "float32",
        [k \in 1..Size(Without(array.shape,
                               GrayAxis(array, channel_location))) |->
           F32Bits(AsF32(array.dtype,
                         GrayAt(m, array, GrayAxis(array, channel_location),
                                Unravel(k - 1,
                                        Without(array.shape,
                                                GrayAxis(array,
                                                         channel_location))))))])

RgbToGray(m, array, channel_location) ==
  Alloc(m, Without(array.shape, GrayAxis(array, channel_location)),
        array.dtype,
        [k \in 1..Size(Without(array.shape,
                               GrayAxis(array, channel_location))) |->
           GrayAt(m, array, GrayAxis(array, channel_location),
                  Unravel(k - 1, Without(array.shape,
                                         GrayAxis(array, channel_location))))])

\* a slip: RGBA -> GRAY by a route of its own, the luminance of the last
\* three channels
ConvertColorModeOwnRoute(m, array, current_mode, target_mode, channel_location) ==
  IF current_mode = target_mode THEN CopyArray(m, array)
  ELSE IF current_mode = GRAY
  THEN IF target_mode = RGB THEN GrayToRgb(m, array, channel_location)
       ELSE LET rgb == GrayToRgb(m, array, channel_location)
                effective_channel_location ==
                  IF channel_location # None THEN channel_location ELSE "last"
            IN RgbToRgba(rgb.mem, rgb.arr, effective_channel_location)
  ELSE IF current_mode = RGB
  THEN IF target_mode = GRAY THEN RgbToGray(m, array, channel_location)
       ELSE RgbToRgba(m, array, channel_location)
  ELSE IF target_mode = RGB THEN RgbaToRgb(m, array, channel_location)
       ELSE LET rgb == RgbaToRgbLastThree(m, array, channel_location)
            IN RgbToGray(rgb.mem, rgb.arr, channel_location)

ConvertColorMode(m, array, current_mode, target_mode, channel_location) ==
  IF current_mode = target_mode THEN CopyArray(m, array)
  ELSE IF current_mode = GRAY
  THEN IF target_mode = RGB THEN GrayToRgb(m, array, channel_location)
       ELSE LET rgb == GrayToRgb(m, array, channel_location)
                effective_channel_location ==
                  IF channel_location # None THEN channel_location ELSE "last"
            IN RgbToRgba(rgb.mem, rgb.arr, effective_channel_location)
  ELSE IF current_mode = RGB
  THEN IF target_mode = GRAY THEN RgbToGray(m, array, channel_location)
       ELSE RgbToRgba(m, array, channel_location)
  ELSE IF target_mode = RGB THEN RgbaToRgb(m, array, channel_location)
       ELSE LET rgb == RgbaToRgb(m, array, channel_location)
            IN RgbToGray(rgb.mem, rgb.arr, channel_location)

(***************************************************************************)
(* ensure_color_mode(array, mode), for the answer format_info of            *)
(* detect_format.  The outcome is [mem, exc, site, arr, fmt, cur, target]:  *)
(* exc is "none" or the exception raised at site; cur and target are the   *)
(* current and the normalized target mode.                                 *)
(***************************************************************************)
NoArr == [type |-> "NoneType", buf |-> 0, shape |-> <<>>, strides |-> <<>>,
          offset |-> 0, dtype |-> "none"]

NoMode == <<>>

SupportedModes == {RGB, RGBA, L, GRAY}

Raise(m, exc, site, fmt, cur, target) ==
  [mem |-> m, exc |-> exc, site |-> site, arr |-> NoArr, fmt |-> fmt,
   cur |-> cur, target |-> target]

Return(r, fmt, cur, target) ==
  [mem |-> r.mem, exc |-> "none", site |-> "none", arr |-> r.arr, fmt |-> fmt,
   cur |-> cur, target |-> target]

CurrentChannels(array, channel_location) ==
  IF channel_location = "last" THEN array.shape[4] ELSE array.shape[2]

ModeOfChannels(current_channels) ==
  CASE current_channels = 1 -> GRAY
    [] current_channels = 3 -> RGB
    [] current_channels = 4 -> RGBA
    [] OTHER -> NoMode

\* a slip: a non-grayscale batch without a usable channel axis, or with a
\* channel count that no mode has, is taken to be grayscale
EnsureColorModeCoerced(m, array, mode, format_info) ==
  IF array.type # "ndarray"
  THEN Raise(m, "TypeError", "array", FormatError, NoMode, NoMode)
  ELSE LET upper == Upper(mode)
           target_mode == IF upper = L THEN GRAY ELSE upper
           is_grayscale == format_info.is_grayscale
           channel_location == format_info.channel_location
       IN IF upper \notin SupportedModes
          THEN Raise(m, "ValueError", "mode", FormatError, NoMode, upper)
          ELSE IF ~format_info.ok
          THEN Raise(m, "ValueError", "detect_format", format_info, NoMode,
                     target_mode)
          ELSE IF is_grayscale
          THEN Return(ConvertColorMode(m, array, GRAY, target_mode,
                                       channel_location),
                      format_info, GRAY, target_mode)
          ELSE IF channel_location \notin {"first", "last"}
          THEN Return(CopyArray(m, array), format_info, GRAY, target_mode)
          ELSE LET current_mode ==
                     ModeOfChannels(CurrentChannels(array, channel_location))
               IN IF current_mode = NoMode
                  THEN Return(CopyArray(m, array), format_info, GRAY,
                              target_mode)
                  ELSE Return(ConvertColorMode(m, array, current_mode,
                                               target_mode, channel_location),
                              format_info, current_mode, target_mode)

EnsureColorMode(m, array, mode, format_info) ==
  IF array.type # "ndarray"
  THEN Raise(m, "TypeError", "array", FormatError, NoMode, NoMode)
  ELSE LET upper == Upper(mode)
           target_mode == IF upper = L THEN GRAY ELSE upper
           is_grayscale == format_info.is_grayscale
           channel_location == format_info.channel_location
       IN IF upper \notin SupportedModes
          THEN Raise(m, "ValueError", "mode", FormatError, NoMode, upper)
          ELSE IF ~format_info.ok
          THEN Raise(m, "ValueError", "detect_format", format_info, NoMode,
                     target_mode)
          ELSE IF is_grayscale
          THEN Return(ConvertColorMode(m, array, GRAY, target_mode,
                                       channel_location),
                      format_info, GRAY, target_mode)
          ELSE IF channel_location \notin {"first", "last"}
          THEN Raise(m, "ValueError", "channel_location", format_info, NoMode,
                     target_mode)
          ELSE LET current_mode ==
                     ModeOfChannels(CurrentChannels(array, channel_location))
               IN IF current_mode = NoMode
                  THEN Raise(m, "ValueError", "channel_count", format_info,
                             NoMode, target_mode)
                  ELSE Return(ConvertColorMode(m, array, current_mode,
                                               target_mode, channel_location),
                              format_info, current_mode, target_mode)

\* what detect_format answers when ensure_color_mode reaches its call
Detections(array) ==
  IF array.type = "ndarray" THEN DetectFormat(array.shape) ELSE {FormatError}

(***************************************************************************)
(* fenn.vision.resize: resize_batch(array, size, interpolation).  A size   *)
(* argument is [type, val]: a Python int s is ("int", <<s>>), a tuple is   *)
(* ("tuple", <its entries>); lists, floats and None are other types.       *)
(* The outcome is [mem, exc, site, arr, fmt, target, calls]: calls is the  *)
(* sequence of calls of the resampling primitive F.resize that were made.  *)
(***************************************************************************)
valid_interpolations == {"nearest", "nearest_exact", "bilinear", "bicubic"}

\* <<target_height, target_width>>; <<>> when size is no int and no 2-tuple
TargetSize(size) ==
  IF size.type = "int" THEN <<size.val[1], size.val[1]>>
  ELSE IF size.type = "tuple" /\ Len(size.val) = 2 THEN size.val
  ELSE <<>>

\* <<original_height, original_width>>
OriginalSize(shape, channel_location) ==
  IF channel_location = "last" THEN <<shape[2], shape[3]>>
  ELSE IF channel_location = "first" THEN <<shape[3], shape[4]>>
  ELSE <<shape[2], shape[3]>>

IsDownsampling(original, target) ==
  original[1] > target[1] \/ original[2] > target[2]

\* a slip: antialiasing is switched on for every downsampling
UseAntialiasAnyMethod(is_downsampling, interpolation) == is_downsampling

UseAntialias(is_downsampling, interpolation) ==
  is_downsampling /\ interpolation \in {"bilinear", "bicubic"}

\* a slip: uint8 is marked too
NeedsNormalizationAnyInteger(original_dtype) == Kind(original_dtype) # "f"

NeedsNormalization(original_dtype) ==
  original_dtype # "uint8" /\ Kind(original_dtype) # "f"

\* np.transpose(a, axes): a view with permuted shape and strides
Transpose(a, axes) ==
  [type |-> a.type, buf |-> a.buf,
   shape |-> [i \in 1..Len(axes) |-> a.shape[axes[i]]],
   strides |-> [i \in 1..Len(axes) |-> a.strides[axes[i]]],
   offset |-> a.offset, dtype |-> a.dtype]

\* a[:, np.newaxis, :, :]
NewAxis(a) ==
  [type |-> a.type, buf |-> a.buf, shape |-> Insert(a.shape, 2, 1),
   strides |-> Insert(a.strides, 2, 0), offset |-> a.offset,
   dtype |-> a.dtype]

\* a.squeeze(1)
Squeeze(a) ==
  [type |-> a.type, buf |-> a.buf, shape |-> Without(a.shape, 2),
   strides |-> Without(a.strides, 2), offset |-> a.offset,
   dtype |-> a.dtype]

\* a slip: height and width change places
ChannelsFirstSwapped(array, channel_location) ==
  IF channel_location = "last" THEN Transpose(array, <<1, 4, 3, 2>>)
  ELSE IF channel_location = None THEN NewAxis(array)
  ELSE array

\* the batch as (N, C, H, W)
ChannelsFirst(array, channel_location) ==
  IF channel_location = "last" THEN Transpose(array, <<1, 4, 2, 3>>)
  ELSE IF channel_location = None THEN NewAxis(array)
  ELSE array

\* a slip: the result is returned as the primitive laid it out
RestoreChannelOrderSkipped(result, channel_location) == result

RestoreChannelOrder(result, channel_location) ==
  IF channel_location = "last" THEN Transpose(result, <<1, 3, 4, 2>>)
  ELSE IF channel_location = None THEN Squeeze(result)
  ELSE result

TensorDType(original_dtype) ==
  IF original_dtype = "uint8" THEN "uint8" ELSE "float32"

\* float(np.iinfo(original_dtype).max), as the float32 operations see it
MaxVal(original_dtype) == IntToF32(IInfoMax(original_dtype))

\* the element of the tensor made of the element v of the batch
TensorValue(original_dtype, v) ==
  IF original_dtype = "uint8" \/ Kind(original_dtype) = "f" THEN v
  ELSE F32Bits(F32Div(IntToF32(v), MaxVal(original_dtype)))

\* a slip: a float32 batch is not copied by astype, a batch that is to be
\* normalized is divided in place, and the tensor shares the batch's buffer
ToTensorInPlace(m, array, original_dtype) ==
  IF original_dtype = "uint8"
  THEN Alloc(m, array.shape, "uint8", Flat(m, array))
  ELSE [mem |-> [m EXCEPT ![array.buf] =
                   [c \in DOMAIN @ |->
                      IF c \in {Addr(array, idx) : idx \in Indices(array.shape)}
                      THEN TensorValue(original_dtype, @[c]) ELSE @[c]]],
        arr |-> [array EXCEPT !.dtype = "float32"]]

\* torch.from_numpy(array.astype(...)) [/ max_val]
ToTensor(m, array, original_dtype) ==
  Alloc(m, array.shape, TensorDType(original_dtype),
        [k \in 1..Size(array.shape) |->
           TensorValue(original_dtype,
                       At(m, array, Unravel(k - 1, array.shape)))])

\* values the resampling primitive may return: for a float32 tensor
\* 1.0, -0.25, 0.5, 1.5, 0.0 (overshoot and undershoot included)
OutSamples(dtype) ==
  IF dtype = "uint8" THEN <<255, 0, 37, 128, 200>>
  ELSE <<1065353216, -1048576000, 1056964608, 1069547520, 0>>

KeepSeed == -1

\* F.resize(tensor, size=[target_height, target_width], ...): the external
\* primitive, known by its contract: a new tensor (N, C, target_height,
\* target_width) of the tensor's dtype; seed picks the values, and seed
\* KeepSeed with the size kept picks the values of the tensor itself
FResize(m, tensor, target, seed) ==
  IF seed = KeepSeed /\ target = <<tensor.shape[3], tensor.shape[4]>>
  THEN CopyArray(m, tensor)
  ELSE Alloc(m, <<tensor.shape[1], tensor.shape[2], target[1], target[2]>>,
             tensor.dtype,
             [k \in 1..(tensor.shape[1] * tensor.shape[2]
                        * target[1] * target[2])
                |-> OutSamples(tensor.dtype)
                      [((seed + k - 1) % Len(OutSamples(tensor.dtype))) + 1]])

\* ndarray.clip(lo, hi) of one element
Clip(f, lo, hi) == IF F32Less(f, lo) THEN lo ELSE IF F32Less(hi, f) THEN hi ELSE f

\* f truncated toward zero is a value of the integer dtype
InRange(dtype, f) ==
  \/ f[2] = 0
  \/ f[3] <= -24
  \/ /\ f[3] <= 7
     /\ F32Trunc(f) >= IInfoMin(dtype)
     /\ F32Trunc(f) <= IInfoMax(dtype)

\* what the cast of an out-of-range float to an integer dtype, undefined in
\* C, stores: the "integer indefinite" minimum (x86) or the saturated bound
Overflows == {"indefinite", "saturate"}

\* astype(dtype) of one float32 element
AsType(dtype, f, overflow) ==
  IF Kind(dtype) = "f" THEN F32Bits(f)
  ELSE IF InRange(dtype, f) THEN F32Trunc(f)
  ELSE IF overflow = "indefinite" \/ f[1] = -1 THEN IInfoMin(dtype)
  ELSE IInfoMax(dtype)

\* the element of the result made of the element v of the primitive's output
ResultValue(original_dtype, v, overflow) ==
  IF NeedsNormalization(original_dtype)
  THEN AsType(original_dtype,
              Clip(F32Mul(F32OfBits(v), MaxVal(original_dtype)), FZero,
                   MaxVal(original_dtype)),
              overflow)
  ELSE IF Kind(original_dtype) = "f"
  THEN F32Bits(Clip(F32OfBits(v), FZero, <<1, 2^23, -23>>))
  ELSE v

\* resized_tensor.numpy() converted back to the original dtype
ToResult(m, resized, original_dtype, overflow) ==
  Alloc(m, resized.shape, original_dtype,
        [k \in 1..Size(resized.shape) |->
           ResultValue(original_dtype,
                       At(m, resized, Unravel(k - 1, resized.shape)),
                       overflow)])

ResizeRaise(m, exc, site, fmt, target) ==
  [mem |-> m, exc |-> exc, site |-> site, arr |-> NoArr, fmt |-> fmt,
   target |-> target, calls |-> <<>>]

\* a slip: the availability of torchvision is never looked at
ResizeChecksIgnoreAvailability(m, array, size, interpolation, format_info, torchvision_available) ==
  IF array.type # "ndarray"
  THEN ResizeRaise(m, "TypeError", "array", FormatError, <<>>)
  ELSE IF TargetSize(size) = <<>>
  THEN ResizeRaise(m, "ValueError", "size", FormatError, <<>>)
  ELSE IF TargetSize(size)[1] <= 0 \/ TargetSize(size)[2] <= 0
  THEN ResizeRaise(m, "ValueError", "size", FormatError, TargetSize(size))
  ELSE IF ~format_info.ok
  THEN ResizeRaise(m, "ValueError", "detect_format", format_info,
                   TargetSize(size))
  ELSE IF interpolation \notin valid_interpolations
  THEN ResizeRaise(m, "ValueError", "interpolation", format_info,
                   TargetSize(size))
  ELSE ResizeRaise(m, "none", "none", format_info, TargetSize(size))

\* a slip: the type of array is checked after the other arguments
ResizeChecksTypeLast(m, array, size, interpolation, format_info, torchvision_available) ==
  IF TargetSize(size) = <<>>
  THEN ResizeRaise(m, "ValueError", "size", FormatError, <<>>)
  ELSE IF TargetSize(size)[1] <= 0 \/ TargetSize(size)[2] <= 0
  THEN ResizeRaise(m, "ValueError", "size", FormatError, TargetSize(size))
  ELSE IF interpolation \notin valid_interpolations
  THEN ResizeRaise(m, "ValueError", "interpolation", format_info,
                   TargetSize(size))
  ELSE IF array.type # "ndarray"
  THEN ResizeRaise(m, "TypeError", "array", FormatError, <<>>)
  ELSE IF ~format_info.ok
  THEN ResizeRaise(m, "ValueError", "detect_format", format_info,
                   TargetSize(size))
  ELSE IF ~torchvision_available
  THEN ResizeRaise(m, "ImportError", "torchvision", format_info,
                   TargetSize(size))
  ELSE ResizeRaise(m, "none", "none", format_info, TargetSize(size))

\* a slip: only negative target dimensions are refused
ResizeChecksZeroAllowed(m, array, size, interpolation, format_info, torchvision_available) ==
  IF array.type # "ndarray"
  THEN ResizeRaise(m, "TypeError", "array", FormatError, <<>>)
  ELSE IF TargetSize(size) = <<>>
  THEN ResizeRaise(m, "ValueError", "size", FormatError, <<>>)
  ELSE IF TargetSize(size)[1] < 0 \/ TargetSize(size)[2] < 0
  THEN ResizeRaise(m, "ValueError", "size", FormatError, TargetSize(size))
  ELSE IF ~format_info.ok
  THEN ResizeRaise(m, "ValueError", "detect_format", format_info,
                   TargetSize(size))
  ELSE IF interpolation \notin valid_interpolations
  THEN ResizeRaise(m, "ValueError", "interpolation", format_info,
                   TargetSize(size))
  ELSE IF ~torchvision_available
  THEN ResizeRaise(m, "ImportError", "torchvision", format_info,
                   TargetSize(size))
  ELSE ResizeRaise(m, "none", "none", format_info, TargetSize(size))

\* a slip: the interpolation name is looked up without being validated,
\* so that an unknown name falls back to the default method
ResizeChecksAnyInterpolation(m, array, size, interpolation, format_info, torchvision_available) ==
  IF array.type # "ndarray"
  THEN ResizeRaise(m, "TypeError", "array", FormatError, <<>>)
  ELSE IF TargetSize(size) = <<>>
  THEN ResizeRaise(m, "ValueError", "size", FormatError, <<>>)
  ELSE IF TargetSize(size)[1] <= 0 \/ TargetSize(size)[2] <= 0
  THEN ResizeRaise(m, "ValueError", "size", FormatError, TargetSize(size))
  ELSE IF ~format_info.ok
  THEN ResizeRaise(m, "ValueError", "detect_format", format_info,
                   TargetSize(size))
  ELSE IF ~torchvision_available
  THEN ResizeRaise(m, "ImportError", "torchvision", format_info,
                   TargetSize(size))
  ELSE ResizeRaise(m, "none", "none", format_info, TargetSize(size))

\* a slip: the availability of torchvision is looked at before the size
ResizeChecksAvailabilityFirst(m, array, size, interpolation, format_info, torchvision_available) ==
  IF array.type # "ndarray"
  THEN ResizeRaise(m, "TypeError", "array", FormatError, <<>>)
  ELSE IF ~torchvision_available
  THEN ResizeRaise(m, "ImportError", "torchvision", FormatError, <<>>)
  ELSE IF TargetSize(size) = <<>>
  THEN ResizeRaise(m, "ValueError", "size", FormatError, <<>>)
  ELSE IF TargetSize(size)[1] <= 0 \/ TargetSize(size)[2] <= 0
  THEN ResizeRaise(m, "ValueError", "size", FormatError, TargetSize(size))
  ELSE IF ~format_info.ok
  THEN ResizeRaise(m, "ValueError", "detect_format", format_info,
                   TargetSize(size))
  ELSE IF interpolation \notin valid_interpolations
  THEN ResizeRaise(m, "ValueError", "interpolation", format_info,
                   TargetSize(size))
  ELSE ResizeRaise(m, "none", "none", format_info, TargetSize(size))

\* the checks of resize_batch, in the order of the code: the outcome has
\* exc = "none" when all of them pass
ResizeChecks(m, array, size, interpolation, format_info, torchvision_available) ==
  IF array.type # "ndarray"
  THEN ResizeRaise(m, "TypeError", "array", FormatError, <<>>)
  ELSE IF TargetSize(size) = <<>>
  THEN ResizeRaise(m, "ValueError", "size", FormatError, <<>>)
  ELSE IF TargetSize(size)[1] <= 0 \/ TargetSize(size)[2] <= 0
  THEN ResizeRaise(m, "ValueError", "size", FormatError, TargetSize(size))
  ELSE IF ~format_info.ok
  THEN ResizeRaise(m, "ValueError", "detect_format", format_info,
                   TargetSize(size))
  ELSE IF interpolation \notin valid_interpolations
  THEN ResizeRaise(m, "ValueError", "interpolation", format_info,
                   TargetSize(size))
  ELSE IF ~torchvision_available
  THEN ResizeRaise(m, "ImportError", "torchvision", format_info,
                   TargetSize(size))
  ELSE ResizeRaise(m, "none", "none", format_info, TargetSize(size))

\* the part of resize_batch after its checks: one call of the primitive,
\* whose output (picked by seed) is converted back and laid out as the input
ResizeConvert(m, array, target, interpolation, format_info, seed, overflow) ==
  LET channel_location == format_info.channel_location
      original_dtype == array.dtype
      is_downsampling ==
        IsDownsampling(OriginalSize(array.shape, channel_location), target)
      tensor == ToTensor(m, ChannelsFirst(array, channel_location),
                         original_dtype)
      use_antialias == UseAntialias(is_downsampling, interpolation)
      resized_tensor == FResize(tensor.mem, tensor.arr, target, seed)
      result == ToResult(resized_tensor.mem, resized_tensor.arr,
                         original_dtype, overflow)
  IN [mem |-> result.mem, exc |-> "none", site |-> "none",
      arr |-> RestoreChannelOrder(result.arr, channel_location),
      fmt |-> format_info, target |-> target,
      calls |-> << [tensor |-> tensor.arr, size |-> target,
                    interpolation |-> interpolation,
                    antialias |-> use_antialias,
                    resized |-> resized_tensor.arr] >>]

ResizeBatch(m, array, size, interpolation, format_info, torchvision_available, seed, overflow) ==
  IF ResizeChecks(m, array, size, interpolation, format_info,
                  torchvision_available).exc # "none"
  THEN ResizeChecks(m, array, size, interpolation, format_info,
                    torchvision_available)
  ELSE ResizeConvert(m, array, TargetSize(size), interpolation, format_info,
                     seed, overflow)

(***************************************************************************)
(* The state: a caller holding a batch x calls ensure_color_mode(x, arg),  *)
(* and then either converts the result back to x's original mode or        *)
(* writes into the result.                                                 *)
(***************************************************************************)
VARIABLES
  mem,   \* the heap: a sequence of buffers
  x,     \* the caller's input (an array descriptor, or a non-array object)
  x0,    \* the contents of x before the first call
  arg,   \* the mode argument of the first call
  r1,    \* the outcome of ensure_color_mode(x, arg)
  r2,    \* the outcome of ensure_color_mode(r1.arr, <x's mode>)
  pc,
  TORCHVISION_AVAILABLE,  \* resize.py: whether torch and torchvision import
  calls, \* the calls of the resampling primitive made so far
  rz,    \* the outcome of resize_batch(x, size, interpolation)
  services,  \* Notifier.services: the registry, a list of service objects
  sends, \* the send_notification calls of the latest notify, in order
  op,    \* the latest Notifier operation and how it ended
  environ,   \* os.environ: the environment variables that are set
  email  \* the outcome of Email(**kwargs)

vars == <<mem, x, x0, arg, r1, r2, pc, TORCHVISION_AVAILABLE, calls, rz,
          services, sends, op, environ, email>>

resizeVars == <<TORCHVISION_AVAILABLE, calls, rz>>

notifierVars == <<services, sends, op>>

emailVars == <<environ, email>>

\* pixel values per dtype; float32 values are bit patterns
\* (0.5, 1.0, 0.0, 0.1, 0.7, 0.25, 0.9, 0.3)
Samples(dtype) ==
  CASE dtype = "uint8" -> <<37, 37, 37, 0, 5, 255, 128, 200>>
    [] dtype = "uint16" -> <<37, 65535, 0, 296, 1000, 40000, 1, 65534>>
    [] dtype = "int16" -> <<-37, 37, 0, 32767, -32768, 300, -1, 12345>>
    [] dtype = "int32" -> <<2147483647, 0, 65536, 16777217, 1, 1000000, 7,
                            70000>>
    [] dtype = "float32" -> <<1056964608, 1065353216, 0, 1036831949,
                              1060320051, 1048576000, 1063675494, 1050253722>>

Gen(dtype, seed, size) ==
  [k \in 1..size |->
     Samples(dtype)[((seed + k - 1) % Len(Samples(dtype))) + 1]]

\* a value that is no sample: what the caller writes into a result
FillValue(dtype) == IF Kind(dtype) = "f" THEN F32Bits(<<1, 3 * 2^22, -24>>)
                    ELSE 7

\* channel-axis sizes tried, 2 being one that no mode has
Channels == {1, 2, 3, 4}

InitShapes ==
  LET Ns == 0..MaxN
      Hs == 1..MaxH
      Ws == 1..MaxW
  IN {<<n, h, w>> : n \in Ns, h \in Hs, w \in Ws}
     \cup {<<n, h, w, c>> : n \in Ns, h \in Hs, w \in Ws, c \in Channels}
     \cup {<<n, c, h, w>> : n \in Ns, c \in Channels, h \in Hs, w \in Ws}

\* a non-array argument, such as the list [1, 2, 3]
NotArray == [type |-> "list", buf |-> 0, shape |-> <<3>>, strides |-> <<1>>,
             offset |-> 0, dtype |-> "none"]

ModeArgs == {RGB, RGBA, GRAY, L, <<"r", "g", "b", "a">>, <<"G", "r", "a", "y">>,
             <<"l">>, <<"C", "M", "Y", "K">>}

NoCall == [exc |-> "none", site |-> "none", arr |-> NoArr, fmt |-> FormatError,
           cur |-> NoMode, target |-> NoMode]

Outcome(res) == [f \in DOMAIN NoCall |-> res[f]]

NoSize == [type |-> "NoneType", val |-> <<>>]

NoResize == [exc |-> "none", site |-> "none", arr |-> NoArr,
             fmt |-> FormatError, target |-> <<>>, size |-> NoSize,
             interpolation |-> "none"]

NoOp == [name |-> "none", args |-> <<>>, exc |-> "none", ret |-> <<>>,
         logged |-> <<>>]

\* no resize_batch call is made
ResizeIdle ==
  /\ TORCHVISION_AVAILABLE = TRUE
  /\ calls = <<>>
  /\ rz = NoResize

\* no Notifier is used
NotifierIdle ==
  /\ services = <<>>
  /\ sends = <<>>
  /\ op = NoOp

\* the object None
PyNone == NoSize

NoEmail == [exc |-> "none", site |-> "none", kwargs |-> <<>>,
            smtp_server |-> PyNone, smtp_port |-> PyNone,
            username |-> PyNone, password |-> PyNone, from_email |-> PyNone,
            to_emails |-> PyNone]

\* no Email is constructed
EmailIdle ==
  /\ environ = <<>>
  /\ email = NoEmail

Init ==
  /\ ResizeIdle
  /\ NotifierIdle
  /\ EmailIdle
  /\ \/ \E shape \in InitShapes, dtype \in DTypes, seed \in 0..MaxSeed :
          LET a == Alloc(<<>>, shape, dtype, Gen(dtype, seed, Size(shape)))
          IN /\ mem = a.mem
             /\ x = a.arr
             /\ x0 = Flat(a.mem, a.arr)
     \/ /\ mem = <<>>
        /\ x = NotArray
        /\ x0 = <<>>
  /\ arg = NoMode
  /\ r1 = NoCall
  /\ r2 = NoCall
  /\ pc = "ready"

\* result = ensure_color_mode(x, mode)
CallEnsureColorMode ==
  /\ pc = "ready"
  /\ \E mode \in ModeArgs, format_info \in Detections(x) :
       \E res \in {EnsureColorMode(mem, x, mode, format_info)} :
          /\ mem' = res.mem
          /\ r1' = Outcome(res)
          /\ arg' = mode
          /\ pc' = IF res.exc = "none" THEN "returned" ELSE "raised"
  /\ UNCHANGED <<x, x0, r2, resizeVars, notifierVars, emailVars>>

\* back = ensure_color_mode(result, <the mode x had>)
ConvertBack ==
  /\ pc = "returned"
  /\ \E format_info \in Detections(r1.arr) :
       \E res \in {EnsureColorMode(mem, r1.arr, r1.cur, format_info)} :
          /\ mem' = res.mem
          /\ r2' = Outcome(res)
          /\ pc' = IF res.exc = "none" THEN "back" ELSE "back_raised"
  /\ UNCHANGED <<x, x0, arg, r1, resizeVars, notifierVars, emailVars>>

\* result[...] = v: the caller writes into every element of the result
FillResult ==
  /\ pc = "returned"
  /\ \E cells \in {{Addr(r1.arr, idx) : idx \in Indices(r1.arr.shape)}} :
       mem' = [mem EXCEPT ![r1.arr.buf] =
                 [k \in DOMAIN @ |-> IF k \in cells
                                     THEN FillValue(r1.arr.dtype) ELSE @[k]]]
  /\ pc' = "written"
  /\ UNCHANGED <<x, x0, arg, r1, r2, resizeVars, notifierVars, emailVars>>

\* onward = ensure_color_mode(result, mode): x was converted to RGB, and
\* the result is converted onward to the mode that is neither RGB nor x's
ConvertOnward ==
  /\ pc = "returned"
  /\ r1.target = RGB
  /\ r1.cur # RGB
  /\ \E mode \in {RGBA, GRAY} \ {r1.cur},
        format_info \in Detections(r1.arr) :
       \E res \in {EnsureColorMode(mem, r1.arr, mode, format_info)} :
          /\ mem' = res.mem
          /\ r2' = Outcome(res)
          /\ pc' = IF res.exc = "none" THEN "onward" ELSE "onward_raised"
  /\ UNCHANGED <<x, x0, arg, r1, resizeVars, notifierVars, emailVars>>

Next == CallEnsureColorMode \/ ConvertBack \/ ConvertOnward \/ FillResult

Spec == Init /\ [][Next]_vars

(***************************************************************************)
(* The same caller with a detect_format that breaks its contract: for a    *)
(* batch of rank 3 or 4 it reports a non-grayscale format with no channel  *)
(* location, or, for a batch of rank 4, a channel axis whose size is       *)
(* neither 1, 3 nor 4.                                                     *)
(***************************************************************************)
Misdetections(array) ==
  IF array.type # "ndarray" \/ Len(array.shape) \notin {3, 4} THEN {}
  ELSE {[ok |-> TRUE, is_grayscale |-> FALSE, channel_location |-> None]}
       \cup {[ok |-> TRUE, is_grayscale |-> FALSE, channel_location |-> loc] :
               loc \in {l \in {"first", "last"} :
                          /\ Len(array.shape) = 4
                          /\ CurrentChannels(array, l) \notin ChannelSizes}}

\* result = ensure_color_mode(x, mode), detect_format answering wrongly
CallEnsureColorModeMisdetected ==
  /\ pc = "ready"
  /\ \E mode \in ModeArgs, format_info \in Misdetections(x) :
       \E res \in {EnsureColorMode(mem, x, mode, format_info)} :
          /\ mem' = res.mem
          /\ r1' = Outcome(res)
          /\ arg' = mode
          /\ pc' = IF res.exc = "none" THEN "returned" ELSE "raised"
  /\ UNCHANGED <<x, x0, r2, resizeVars, notifierVars, emailVars>>

NextMisdetected == CallEnsureColorMode \/ CallEnsureColorModeMisdetected

SpecMisdetected == Init /\ [][NextMisdetected]_vars

(***************************************************************************)
(* A caller holding a batch x calls resize_batch(x, size, interpolation),  *)
(* or ensure_color_mode(x, mode), in an interpreter where torchvision may  *)
(* or may not be installed.                                                *)
(***************************************************************************)
\* source heights and widths: taller than wide, wider than tall, and both
Spatial == {<<MaxH, 1>>, <<1, MaxW>>, <<MaxH, MaxW>>}

\* channel-axis sizes tried, 2 being one that no layout has
ResizeChannels == {1, 2, 3}

\* the three layouts in every spatial size, and a rank-2 and a rank-5 array
ResizeShapes ==
  {<<n, hw[1], hw[2]>> : n \in {0, MaxN}, hw \in Spatial}
  \cup {<<MaxN, hw[1], hw[2], c>> : hw \in Spatial, c \in ResizeChannels}
  \cup {<<MaxN, c, hw[1], hw[2]>> : hw \in Spatial, c \in ResizeChannels}
  \cup {<<1, 2>>, <<1, 1, 2, 2, 3>>}

\* one batch of each layout, for the dtypes other than uint8
DTypeShapes ==
  {<<MaxN, MaxH, MaxW>>, <<MaxN, MaxH, MaxW, 3>>, <<MaxN, 3, MaxH, MaxW>>}

\* the batches resize_batch is called with
ResizeBatches ==
  {<<shape, "uint8">> : shape \in ResizeShapes}
  \cup {<<shape, dtype>> : shape \in DTypeShapes, dtype \in ResizeDTypes}

IntSize(n) == [type |-> "int", val |-> <<n>>]

TupleSize(t) == [type |-> "tuple", val |-> t]

\* size arguments: ints and (height, width) tuples, positive or not, and
\* a 3-tuple, a list [2, 2], a float 2.0 and None
SizeArgs ==
  {IntSize(n) : n \in {-1, 0, 1, MaxTarget}}
  \cup {TupleSize(<<h, w>>) : h \in 1..MaxTarget, w \in 1..MaxTarget}
  \cup {TupleSize(<<0, 2>>), TupleSize(<<-10, 10>>), TupleSize(<<10, -10>>),
        TupleSize(<<1, 2, 3>>), [type |-> "list", val |-> <<2, 2>>],
        [type |-> "float", val |-> <<2>>], NoSize}

InterpolationArgs ==
  valid_interpolations \cup {"invalid_mode", "BILINEAR"}

ResizeOutcome(res, size, interpolation) ==
  [exc |-> res.exc, site |-> res.site, arr |-> res.arr, fmt |-> res.fmt,
   target |-> res.target, size |-> size, interpolation |-> interpolation]

InitResize ==
  /\ NotifierIdle
  /\ EmailIdle
  /\ TORCHVISION_AVAILABLE \in BOOLEAN
  /\ calls = <<>>
  /\ rz = NoResize
  /\ \/ \E b \in ResizeBatches :
          LET a == Alloc(<<>>, b[1], b[2], Gen(b[2], 0, Size(b[1])))
          IN /\ mem = a.mem
             /\ x = a.arr
             /\ x0 = Flat(a.mem, a.arr)
     \/ /\ mem = <<>>
        /\ x = NotArray
        /\ x0 = <<>>
  /\ arg = NoMode
  /\ r1 = NoCall
  /\ r2 = NoCall
  /\ pc = "ready"

\* result = resize_batch(x, size, interpolation)
CallResizeBatch ==
  /\ pc = "ready"
  /\ \E size \in SizeArgs, interpolation \in InterpolationArgs,
        format_info \in Detections(x), seed \in KeepSeed..MaxOutSeed,
        overflow \in Overflows :
       \E res \in {ResizeBatch(mem, x, size, interpolation, format_info,
                                TORCHVISION_AVAILABLE, seed, overflow)} :
          /\ mem' = res.mem
          /\ rz' = ResizeOutcome(res, size, interpolation)
          /\ calls' = calls \o res.calls
          /\ pc' = IF res.exc = "none" THEN "resized" ELSE "resize_raised"
  /\ UNCHANGED <<x, x0, arg, r1, r2, TORCHVISION_AVAILABLE, notifierVars, emailVars>>

NextResize == CallResizeBatch \/ CallEnsureColorMode

SpecResize == InitResize /\ [][NextResize]_vars

(***************************************************************************)
(* smle.Notification.Notifier.  Service objects are numbered; the registry *)
(* Notifier.services is a sequence of them (an object may be registered    *)
(* more than once).  send_notification either returns or raises an         *)
(* Exception, as the Service interface documents.                          *)
(***************************************************************************)
Services == 1..MaxServices

\* service.__class__.__name__: the objects are Discord, Slack, Email, and
\* then objects of the same classes again
ClassName(service) == <<"Discord", "Slack", "Email">>[((service - 1) % 3) + 1]

Messages == {"Training completed successfully!", "Test message"}

\* a slip: the exception of a service is not caught
RECURSIVE NotifyLoopUncaught(_, _, _, _, _)
NotifyLoopUncaught(registry, message, raises, i, acc) ==
  IF i > Len(registry) THEN acc
  ELSE IF raises[i]
  THEN [acc EXCEPT !.sends = Append(acc.sends,
                                    [service |-> registry[i],
                                     message |-> message, raised |-> TRUE]),
                   !.exc = "Exception"]
  ELSE NotifyLoopUncaught(registry, message, raises, i + 1,
         [acc EXCEPT !.sends = Append(acc.sends,
                                      [service |-> registry[i],
                                       message |-> message, raised |-> FALSE]),
                     !.successful_services =
                        Append(acc.successful_services, ClassName(registry[i])),
                     !.logged = Append(acc.logged, "info")])

\* for service in self.services: try send_notification / except Exception,
\* from the i-th entry on; raises[i] says whether the i-th call raises
RECURSIVE NotifyLoop(_, _, _, _, _)
NotifyLoop(registry, message, raises, i, acc) ==
  IF i > Len(registry) THEN acc
  ELSE IF raises[i]
  THEN NotifyLoop(registry, message, raises, i + 1,
         [acc EXCEPT !.sends = Append(acc.sends,
                                      [service |-> registry[i],
                                       message |-> message, raised |-> TRUE]),
                     !.failed_services =
                        Append(acc.failed_services, ClassName(registry[i])),
                     !.logged = Append(acc.logged, "error")])
  ELSE NotifyLoop(registry, message, raises, i + 1,
         [acc EXCEPT !.sends = Append(acc.sends,
                                      [service |-> registry[i],
                                       message |-> message, raised |-> FALSE]),
                     !.successful_services =
                        Append(acc.successful_services, ClassName(registry[i])),
                     !.logged = Append(acc.logged, "info")])

\* the summary lines logged after the loop
Summary(acc) ==
  (IF acc.successful_services # <<>> THEN <<"info">> ELSE <<>>)
  \o (IF acc.failed_services # <<>> THEN <<"warning">> ELSE <<>>)

\* Notifier.notify(message): [sends, exc, logged]
Notify(registry, message, raises) ==
  IF registry = <<>>
  THEN [sends |-> <<>>, exc |-> "none", logged |-> <<"warning">>]
  ELSE LET acc == NotifyLoop(registry, message, raises, 1,
                             [sends |-> <<>>, exc |-> "none",
                              successful_services |-> <<>>,
                              failed_services |-> <<>>, logged |-> <<>>])
       IN [sends |-> acc.sends, exc |-> acc.exc,
           logged |-> IF acc.exc = "none" THEN acc.logged \o Summary(acc)
                      ELSE acc.logged]

\* a slip: the last entry equal to service is the one removed
RemoveLast(registry, service) ==
  Without(registry,
          CHOOSE i \in 1..Len(registry) :
            /\ registry[i] = service
            /\ \A j \in (i + 1)..Len(registry) : registry[j] # service)

\* list.remove(service): the list without the first entry equal to service
RemoveFirst(registry, service) ==
  Without(registry,
          CHOOSE i \in 1..Len(registry) :
            /\ registry[i] = service
            /\ \A j \in 1..(i - 1) : registry[j] # service)

\* notifier = Notifier()
InitNotifier ==
  /\ ResizeIdle
  /\ EmailIdle
  /\ mem = <<>>
  /\ x = NotArray
  /\ x0 = <<>>
  /\ arg = NoMode
  /\ r1 = NoCall
  /\ r2 = NoCall
  /\ pc = "notifier"
  /\ services = <<>>
  /\ sends = <<>>
  /\ op = NoOp

callerVars == <<mem, x, x0, arg, r1, r2, pc>>

\* notifier.add_service(service)
AddService ==
  /\ pc = "notifier"
  /\ Len(services) < MaxRegistry
  /\ \E service \in Services :
       /\ services' = Append(services, service)
       /\ op' = [name |-> "add_service", args |-> <<service>>,
                 exc |-> "none", ret |-> <<>>, logged |-> <<"info">>]
  /\ sends' = <<>>
  /\ UNCHANGED <<callerVars, resizeVars, emailVars>>

\* notifier.remove_service(service)
RemoveService ==
  /\ pc = "notifier"
  /\ \E service \in Services :
       IF \E i \in 1..Len(services) : services[i] = service
       THEN /\ services' = RemoveFirst(services, service)
            /\ op' = [name |-> "remove_service", args |-> <<service>>,
                      exc |-> "none", ret |-> <<>>, logged |-> <<"info">>]
       ELSE /\ services' = services
            /\ op' = [name |-> "remove_service", args |-> <<service>>,
                      exc |-> "ValueError", ret |-> <<>>,
                      logged |-> <<"warning">>]
  /\ sends' = <<>>
  /\ UNCHANGED <<callerVars, resizeVars, emailVars>>

\* notifier.clear_services()
ClearServices ==
  /\ pc = "notifier"
  /\ services' = <<>>
  /\ op' = [name |-> "clear_services", args |-> <<>>, exc |-> "none",
            ret |-> <<>>, logged |-> <<"info">>]
  /\ sends' = <<>>
  /\ UNCHANGED <<callerVars, resizeVars, emailVars>>

\* notifier.get_services()
GetServices ==
  /\ pc = "notifier"
  /\ op' = [name |-> "get_services", args |-> <<>>, exc |-> "none",
            ret |-> [i \in 1..Len(services) |-> ClassName(services[i])],
            logged |-> <<>>]
  /\ sends' = <<>>
  /\ UNCHANGED <<callerVars, resizeVars, emailVars, services>>

\* notifier.notify(message)
CallNotify ==
  /\ pc = "notifier"
  /\ \E message \in Messages, raises \in [1..Len(services) -> BOOLEAN] :
       \E res \in {Notify(services, message, raises)} :
          /\ sends' = res.sends
          /\ op' = [name |-> "notify", args |-> <<message>>, exc |-> res.exc,
                    ret |-> <<>>, logged |-> res.logged]
  /\ UNCHANGED <<callerVars, resizeVars, emailVars, services>>

NextNotifier ==
  AddService \/ RemoveService \/ ClearServices \/ GetServices \/ CallNotify

SpecNotifier == InitNotifier /\ [][NextNotifier]_vars

(***************************************************************************)
(* smle.Notification.Email.__init__.  Python objects are tagged: None, an  *)
(* int, a str (a sequence of characters) or a list.  os.environ maps the   *)
(* names of the variables that are set to their strings; the keyword       *)
(* arguments of a call map the names that are passed to their objects.     *)
(***************************************************************************)
PyStr(s) == [type |-> "str", val |-> s]

PyList(l) == [type |-> "list", val |-> l]

\* bool(v)
Truthy(v) ==
  CASE v.type = "NoneType" -> FALSE
    [] v.type = "int" -> v.val[1] # 0
    [] OTHER -> v.val # <<>>

\* a or b
Or(a, b) == IF Truthy(a) THEN a ELSE b

\* os.getenv(name, default)
Getenv(env, name, default) ==
  IF name \in DOMAIN env THEN PyStr(env[name]) ELSE default

\* the value a parameter is bound to: the argument, or the default
Param(kwargs, name, default) ==
  IF name \in DOMAIN kwargs THEN kwargs[name] ELSE default

Digits == <<"0", "1", "2", "3", "4", "5", "6", "7", "8", "9">>

IsDigit(c) == \E d \in 1..10 : Digits[d] = c

DigitValue(c) == (CHOOSE d \in 1..10 : Digits[d] = c) - 1

\* str.strip()
RECURSIVE Strip(_)
Strip(s) ==
  IF s = <<>> THEN s
  ELSE IF Head(s) = " " THEN Strip(Tail(s))
  ELSE IF s[Len(s)] = " " THEN Strip(SubSeq(s, 1, Len(s) - 1))
  ELSE s

RECURSIVE DecimalValue(_)
DecimalValue(s) ==
  IF s = <<>> THEN 0
  ELSE 10 * DecimalValue(SubSeq(s, 1, Len(s) - 1)) + DigitValue(s[Len(s)])

\* int(s) of a string: surrounding blanks are dropped, and the rest must
\* be a decimal numeral
IntOfStr(s) ==
  LET t == Strip(s)
  IN IF t = <<>> \/ \E i \in 1..Len(t) : ~IsDigit(t[i])
     THEN [exc |-> "ValueError", val |-> PyNone]
     ELSE [exc |-> "none", val |-> IntSize(DecimalValue(t))]

\* s.split(","), from the i-th character on; cur is the part being read
RECURSIVE SplitFrom(_, _, _, _)
SplitFrom(s, i, cur, acc) ==
  IF i > Len(s) THEN Append(acc, cur)
  ELSE IF s[i] = "," THEN SplitFrom(s, i + 1, <<>>, Append(acc, cur))
  ELSE SplitFrom(s, i + 1, Append(cur, s[i]), acc)

Split(s) == SplitFrom(s, 1, <<>>, <<>>)

\* [email.strip() for email in parts if email.strip()]
RECURSIVE StripNonEmpty(_)
StripNonEmpty(parts) ==
  IF parts = <<>> THEN <<>>
  ELSE (IF Strip(Head(parts)) # <<>> THEN <<Strip(Head(parts))>> ELSE <<>>)
       \o StripNonEmpty(Tail(parts))

EmailRaise(kwargs, site) ==
  [NoEmail EXCEPT !.exc = "ValueError", !.site = site, !.kwargs = kwargs]

\* Email(**kwargs) in the environment env: the attributes of the new
\* object, or the ValueError raised
EmailInit(kwargs, env) ==
  LET smtp_port == Param(kwargs, "smtp_port", IntSize(587))
      port_env == IntOfStr(Getenv(env, "SMTP_PORT", PyStr(<<"5", "8", "7">>)).val)
      to_arg == Param(kwargs, "to_emails", PyNone)
      self ==
        [exc |-> "none", site |-> "none", kwargs |-> kwargs,
         smtp_server |-> Or(Param(kwargs, "smtp_server", PyNone),
                            Getenv(env, "SMTP_SERVER", PyNone)),
         smtp_port |-> IF Truthy(smtp_port) THEN smtp_port ELSE port_env.val,
         username |-> Or(Param(kwargs, "username", PyNone),
                         Getenv(env, "SMTP_USERNAME", PyNone)),
         password |-> Or(Param(kwargs, "password", PyNone),
                         Getenv(env, "SMTP_PASSWORD", PyNone)),
         from_email |-> Or(Param(kwargs, "from_email", PyNone),
                           Getenv(env, "SMTP_FROM_EMAIL", PyNone)),
         to_emails |->
           IF Truthy(to_arg) THEN to_arg
           ELSE PyList(StripNonEmpty(
                  Split(Getenv(env, "SMTP_TO_EMAILS", PyStr(<<>>)).val)))]
  IN IF ~Truthy(smtp_port) /\ port_env.exc # "none"
     THEN EmailRaise(kwargs, "smtp_port")
     ELSE IF ~(/\ Truthy(self.smtp_server) /\ Truthy(self.username)
               /\ Truthy(self.password) /\ Truthy(self.from_email)
               /\ Truthy(self.to_emails))
     THEN EmailRaise(kwargs, "required")
     ELSE self

EnvNames == {"SMTP_SERVER", "SMTP_PORT", "SMTP_USERNAME", "SMTP_PASSWORD",
             "SMTP_FROM_EMAIL", "SMTP_TO_EMAILS"}

\* the strings a variable is set to; for SMTP_PORT "465", "587", " 25 ",
\* "" and "abc", for SMTP_TO_EMAILS "c@d" and " ,c@d, e@f"
EnvValues(name) ==
  CASE name = "SMTP_SERVER" -> {<<"m", "x">>}
    [] name = "SMTP_PORT" -> {<<"4", "6", "5">>, <<"5", "8", "7">>,
                              <<" ", "2", "5", " ">>, <<>>, <<"a", "b", "c">>}
    [] name = "SMTP_USERNAME" -> {<<"u">>}
    [] name = "SMTP_PASSWORD" -> {<<"p">>}
    [] name = "SMTP_FROM_EMAIL" -> {<<"a", "@", "b">>}
    [] name = "SMTP_TO_EMAILS" ->
         {<<"c", "@", "d">>,
          <<" ", ",", "c", "@", "d", ",", " ", "e", "@", "f">>}

\* the environment in which the variables of set have the chosen strings
Environ(set, choice) == [name \in set |-> choice[name]]

\* the keyword arguments tried: smtp_port omitted, None, 0 or 25, and the
\* other settings all omitted or all passed
PortArgs == {PyNone, IntSize(0), IntSize(25)}

Explicit ==
  [smtp_server |-> PyStr(<<"t">>), username |-> PyStr(<<"v">>),
   password |-> PyStr(<<"q">>), from_email |-> PyStr(<<"g", "@", "h">>),
   to_emails |-> PyList(<<<<"r", "@", "s">>>>)]

WithPort(kwargs, port) ==
  [name \in DOMAIN kwargs \cup {"smtp_port"} |->
     IF name = "smtp_port" THEN port ELSE kwargs[name]]

KwArgs ==
  {<<>>, Explicit}
  \cup {WithPort(<<>>, port) : port \in PortArgs}
  \cup {WithPort(Explicit, port) : port \in PortArgs}

\* with patch.dict(os.environ, {...}, clear=True):
InitEmail ==
  /\ ResizeIdle
  /\ NotifierIdle
  /\ mem = <<>>
  /\ x = NotArray
  /\ x0 = <<>>
  /\ arg = NoMode
  /\ r1 = NoCall
  /\ r2 = NoCall
  /\ pc = "email"
  /\ \E set \in SUBSET EnvNames, port \in EnvValues("SMTP_PORT"),
        to \in EnvValues("SMTP_TO_EMAILS") :
       environ = Environ(set, [name \in EnvNames |->
                                 CASE name = "SMTP_PORT" -> port
                                   [] name = "SMTP_TO_EMAILS" -> to
                                   [] OTHER -> CHOOSE v \in EnvValues(name) :
                                                 TRUE])
  /\ email = NoEmail

\* email = Email(**kwargs)
NewEmail ==
  /\ pc = "email"
  /\ \E kwargs \in KwArgs : email' = EmailInit(kwargs, environ)
  /\ UNCHANGED <<callerVars, resizeVars, notifierVars, environ>>

NextEmail == NewEmail

SpecEmail == InitEmail /\ [][NextEmail]_vars

(***************************************************************************)
(* Vocabulary of the properties.                                           *)
(***************************************************************************)
y == r1.arr

z == r2.arr

loc1 == r1.fmt.channel_location

\* the channel axis (1-based) of a rank-4 batch
ChannelAxis(channel_location) == IF channel_location = "first" THEN 2 ELSE 4

NumChannels(mode) ==
  CASE mode = GRAY -> 1
    [] mode = RGB -> 3
    [] mode = RGBA -> 4

\* <<N, H, W>> of a batch laid out as channel_location says
Extent(shape, channel_location) ==
  IF Len(shape) = 3 THEN shape
  ELSE IF channel_location = "first" THEN <<shape[1], shape[3], shape[4]>>
  ELSE <<shape[1], shape[2], shape[3]>>

\* the layout of the result of a call that found channel_location
ResultLocation(channel_location) ==
  IF channel_location = None THEN "last" ELSE channel_location

\* the index in the input of pixel idx (an index of a rank-4 result),
\* channel c of the input
SourceIndex(a, channel_location, idx, c) ==
  LET axis == ChannelAxis(ResultLocation(channel_location))
  IN IF Len(a.shape) = 3 THEN Without(idx, axis)
     ELSE [i \in DOMAIN idx |-> IF i = axis THEN c ELSE idx[i]]

IntegerDType(dtype) == Kind(dtype) \in {"u", "i"}

\* the second call found the first call's result in the mode it was
\* converted to, with its channel axis where the first call put it
Redetected ==
  /\ r2.cur = r1.target
  /\ r2.fmt.channel_location =
       (IF Len(y.shape) = 3 THEN None ELSE ResultLocation(loc1))

(***************************************************************************)
(* C1: converting a batch to the mode it already has returns a buffer      *)
(* distinct from the input's, with the input's shape, dtype and contents.  *)
(***************************************************************************)
C1_IdentityReturnsCopy ==
  (pc = "returned" /\ r1.cur = r1.target) =>
    /\ y.buf # x.buf
    /\ y.shape = x.shape
    /\ y.dtype = x.dtype
    /\ Flat(mem, y) = x0
    /\ Flat(mem, x) = x0

C1_Witness ==
  /\ pc = "returned"
  /\ r1.cur = RGBA
  /\ r1.target = RGBA
  /\ loc1 = "first"
  /\ Size(x.shape) > 0

(***************************************************************************)
(* C2: the result of a conversion never shares storage with the input, so  *)
(* writing into the result leaves the input's contents as they were.       *)
(***************************************************************************)
C2_ResultNeverAliasesInput ==
  (pc = "written") => Flat(mem, x) = x0

C4_DTypeBatchSpatialKept ==
  (pc = "returned") =>
    /\ y.dtype = x.dtype
    /\ Len(y.shape) \in {3, 4}
    /\ Extent(y.shape, ResultLocation(loc1)) = Extent(x.shape, loc1)
    /\ IF Len(y.shape) = 3 THEN r1.target = GRAY
       ELSE y.shape[ChannelAxis(ResultLocation(loc1))] =
              NumChannels(r1.target)

C4_Witness ==
  /\ pc = "returned"
  /\ x.dtype = "uint16"
  /\ r1.cur = RGBA
  /\ r1.target = GRAY
  /\ x.shape = <<1, 4, 2, 1>>
  /\ loc1 = "first"

(***************************************************************************)
(* C5 as claimed: converting to a mode and back returns a batch equal to   *)
(* the input, unless the pair of modes is RGB and GRAY.                    *)
(***************************************************************************)
C5_RoundTripLossless ==
  (pc = "back" /\ Redetected /\ {r1.cur, r1.target} # {RGB, GRAY}) =>
    /\ z.shape = x.shape
    /\ Flat(mem, z) = x0

(***************************************************************************)
(* C5 as amended: the round trip returns the input when the target is the  *)
(* input's own mode and for RGB -> RGBA -> RGB; RGBA -> RGB -> RGBA keeps  *)
(* shape and colour channels and makes alpha opaque.                       *)
(***************************************************************************)
C5_RoundTripWhereLossless ==
  (pc = "back" /\ Redetected) =>
    /\ (r1.cur = r1.target \/ (r1.cur = RGB /\ r1.target = RGBA)) =>
         /\ z.shape = x.shape
         /\ Flat(mem, z) = x0
    /\ (r1.cur = RGBA /\ r1.target = RGB) =>
         /\ z.shape = x.shape
         /\ \A idx \in Indices(z.shape) :
              At(mem, z, idx) =
                IF idx[ChannelAxis(loc1)] = 3 THEN AlphaValue(x.dtype)
                ELSE At(mem, x, idx)

C5_Witness ==
  /\ pc = "back"
  /\ Redetected
  /\ r1.cur = RGB
  /\ r1.target = RGBA
  /\ loc1 = "last"
  /\ x.shape = <<1, 2, 2, 3>>
  /\ z.buf # x.buf

(***************************************************************************)
(* C6 as claimed: GRAY -> RGBA -> GRAY of an integer batch returns every   *)
(* pixel value unchanged.                                                  *)
(***************************************************************************)
C6_GrayRoundTripExact ==
  (/\ pc = "back"
   /\ Redetected
   /\ r1.cur = GRAY
   /\ r1.target = RGBA
   /\ IntegerDType(x.dtype)) =>
    Flat(mem, z) = x0

(***************************************************************************)
(* C6 as amended: every pixel of GRAY -> RGBA -> GRAY is the original      *)
(* value or the next integer toward zero.                                  *)
(***************************************************************************)
C6_GrayRoundTripWithinOne ==
  (/\ pc = "back"
   /\ Redetected
   /\ r1.cur = GRAY
   /\ r1.target = RGBA
   /\ IntegerDType(x.dtype)) =>
    /\ Len(Flat(mem, z)) = Len(x0)
    /\ \A k \in 1..Len(x0) :
         \/ Flat(mem, z)[k] = x0[k]
         \/ Flat(mem, z)[k] = x0[k] - Sign(x0[k])

C6_Witness ==
  /\ pc = "back"
  /\ Redetected
  /\ r1.cur = GRAY
  /\ r1.target = RGBA
  /\ x.dtype = "int16"
  /\ x.shape = <<1, 1, 2>>
  /\ x0 = <<-37, 37>>
  /\ Flat(mem, z) = <<-36, 36>>

OpaqueAlpha(dtype) ==
  CASE dtype = "uint8" -> 255
    [] dtype = "uint16" -> 65535
    [] dtype = "int16" -> 32767
    [] dtype = "float32" -> 1065353216

C8_AlphaPlane ==
  (pc = "returned" /\ r1.target = RGBA /\ r1.cur \in {GRAY, RGB}) =>
    /\ Len(y.shape) = 4
    /\ y.shape[ChannelAxis(ResultLocation(loc1))] = 4
    /\ \A idx \in Indices(y.shape) :
         LET c == idx[ChannelAxis(ResultLocation(loc1))]
         IN At(mem, y, idx) =
              IF c = 3 THEN OpaqueAlpha(x.dtype)
              ELSE At(mem, x, SourceIndex(x, loc1, idx,
                                          IF r1.cur = GRAY THEN 0 ELSE c))

C8_Witness ==
  /\ pc = "returned"
  /\ r1.target = RGBA
  /\ r1.cur = GRAY
  /\ x.dtype = "int16"
  /\ x.shape = <<1, 2, 2>>
  /\ At(mem, y, <<0, 1, 1, 3>>) = 32767

(***************************************************************************)
(* C9: GRAY -> RGB yields three channels each equal to the input, the      *)
(* channel axis last for an (N, H, W) input and where it was otherwise.    *)
(***************************************************************************)
C9_GrayToRgb ==
  (pc = "returned" /\ r1.cur = GRAY /\ r1.target = RGB) =>
    /\ y.shape = (IF loc1 = None THEN Append(x.shape, 3)
                  ELSE [x.shape EXCEPT ![ChannelAxis(loc1)] = 3])
    /\ \A idx \in Indices(y.shape) :
         At(mem, y, idx) = At(mem, x, SourceIndex(x, loc1, idx, 0))

C9_Witness ==
  /\ pc = "returned"
  /\ r1.cur = GRAY
  /\ r1.target = RGB
  /\ x.shape = <<1, 1, 2, 2>>
  /\ loc1 = "first"
  /\ y.shape = <<1, 3, 2, 2>>

(***************************************************************************)
(* C10 as claimed: each pixel of the GRAY result of a uint8 RGB batch is   *)
(* 0.299 R + 0.587 G + 0.114 B rounded to the nearest integer.             *)
(***************************************************************************)
\* 1000 times the exact luminance of the pixel idx of the result
Luminance1000(idx) ==
  299 * At(mem, x, Insert(idx, ChannelAxis(loc1), 0))
  + 587 * At(mem, x, Insert(idx, ChannelAxis(loc1), 1))
  + 114 * At(mem, x, Insert(idx, ChannelAxis(loc1), 2))

C10_GrayIsRoundedLuminance ==
  (pc = "returned" /\ x.dtype = "uint8" /\ r1.cur = RGB /\ r1.target = GRAY) =>
    \A idx \in Indices(y.shape) :
      At(mem, y, idx) = (Luminance1000(idx) + 500) \div 1000

(***************************************************************************)
(* C10 as amended: each pixel is the luminance truncated, not rounded: it  *)
(* is floor(0.299 R + 0.587 G + 0.114 B), or one less than that when the   *)
(* exact luminance is an integer.                                          *)
(***************************************************************************)
C10_GrayIsTruncatedLuminance ==
  (pc = "returned" /\ x.dtype = "uint8" /\ r1.cur = RGB /\ r1.target = GRAY) =>
    \A idx \in Indices(y.shape) :
      \/ At(mem, y, idx) = Luminance1000(idx) \div 1000
      \/ /\ Luminance1000(idx) % 1000 = 0
         /\ At(mem, y, idx) = (Luminance1000(idx) \div 1000) - 1

C10_Witness ==
  /\ pc = "returned"
  /\ x.dtype = "uint8"
  /\ r1.cur = RGB
  /\ r1.target = GRAY
  /\ x.shape = <<1, 1, 2, 3>>
  /\ x0 = <<37, 0, 5, 255, 128, 200>>
  /\ Flat(mem, y) = <<11, 174>>

(***************************************************************************)
(* C11: RGBA -> RGB returns the first three channels of the input along    *)
(* the channel axis, for both layouts, and the result does not depend on   *)
(* the input's alpha plane: the same call on the input with its alpha      *)
(* plane overwritten gives an equal result.                                *)
(***************************************************************************)
\* the heap as it was when ensure_color_mode(x, arg) was called
MemBefore == SubSeq(mem, 1, x.buf)

\* the addresses of the alpha plane of an RGBA batch
AlphaCells(a, channel_location) ==
  {Addr(a, idx) : idx \in {i \in Indices(a.shape) :
                              i[ChannelAxis(channel_location)] = 3}}

\* the heap m with the alpha plane of a overwritten by v
WithAlpha(m, a, channel_location, v) ==
  [b \in DOMAIN m |->
     IF b = a.buf
     THEN [k \in DOMAIN m[b] |->
             IF k \in AlphaCells(a, channel_location) THEN v ELSE m[b][k]]
     ELSE m[b]]

\* the result of the same call on x with another alpha plane
OtherAlphaCall ==
  EnsureColorMode(WithAlpha(MemBefore, x, loc1, FillValue(x.dtype)), x, arg,
                  r1.fmt)

C11_RgbaToRgbFirstThree ==
  (pc = "returned" /\ r1.cur = RGBA /\ r1.target = RGB) =>
    /\ y.shape = [i \in 1..4 |-> IF i = ChannelAxis(loc1) THEN 3
                                  ELSE x.shape[i]]
    /\ \A idx \in Indices(y.shape) : At(mem, y, idx) = At(mem, x, idx)
    /\ OtherAlphaCall.exc = "none"
    /\ OtherAlphaCall.arr.shape = y.shape
    /\ Flat(OtherAlphaCall.mem, OtherAlphaCall.arr) = Flat(mem, y)

C11_Witness ==
  /\ pc = "returned"
  /\ r1.cur = RGBA
  /\ r1.target = RGB
  /\ loc1 = "first"
  /\ x.shape = <<1, 4, 2, 2>>
  /\ x.dtype = "uint8"
  /\ Flat(mem, y) = SubSeq(x0, 1, 12)

(***************************************************************************)
(* C12: for an array argument, mode strings that differ only in letter     *)
(* case give the same outcome, "L" gives the outcome of "GRAY", and a mode *)
(* that is none of RGB, RGBA, L, GRAY in any letter case raises ValueError *)
(* and returns nothing.                                                    *)
(***************************************************************************)
CasePairs == {<<"r", "R">>, <<"g", "G">>, <<"b", "B">>, <<"a", "A">>,
              <<"y", "Y">>, <<"l", "L">>}

SameLetter(c, d) == c = d \/ <<c, d>> \in CasePairs \/ <<d, c>> \in CasePairs

SameUpToCase(s, t) ==
  /\ Len(s) = Len(t)
  /\ \A i \in 1..Len(s) : SameLetter(s[i], t[i])

\* the call ensure_color_mode(x, mode) made in place of the first call
CallWith(mode) == EnsureColorMode(MemBefore, x, mode, r1.fmt)

\* the first call ended as res does: same exception, or equal results
SameAsFirstCall(res) ==
  /\ res.exc = r1.exc
  /\ res.exc = "none" =>
       /\ res.arr.shape = y.shape
       /\ res.arr.dtype = y.dtype
       /\ Flat(res.mem, res.arr) = Flat(mem, y)

C12_ModeNormalized ==
  (pc \in {"returned", "raised"} /\ x.type = "ndarray") =>
    /\ \A other \in ModeArgs :
         SameUpToCase(arg, other) => SameAsFirstCall(CallWith(other))
    /\ SameUpToCase(arg, L) => SameAsFirstCall(CallWith(GRAY))
    /\ (\A s \in SupportedModes : ~SameUpToCase(arg, s)) =>
         /\ pc = "raised"
         /\ r1.exc = "ValueError"
         /\ r1.site = "mode"
         /\ r1.arr = NoArr

C12_Witness ==
  /\ pc = "returned"
  /\ arg = <<"l">>
  /\ r1.cur = RGB
  /\ r1.target = GRAY
  /\ x.shape = <<1, 2, 2, 3>>
  /\ y.shape = <<1, 2, 2>>

(***************************************************************************)
(* Vocabulary of the properties of resize_batch.                           *)
(***************************************************************************)
rr == rz.arr

rloc == rz.fmt.channel_location

ResizeCalled == pc \in {"resized", "resize_raised"}

\* size is a single integer or a 2-tuple
SizeWellFormed(size) ==
  size.type = "int" \/ (size.type = "tuple" /\ Len(size.val) = 2)

\* the (height, width) a well-formed size asks for
RequestedSize(size) ==
  IF size.type = "int" THEN <<size.val[1], size.val[1]>> ELSE size.val

SizeValid(size) ==
  /\ SizeWellFormed(size)
  /\ RequestedSize(size)[1] > 0
  /\ RequestedSize(size)[2] > 0

InterpolationNames == {"nearest", "nearest_exact", "bilinear", "bicubic"}

(***************************************************************************)
(* C13: ensure_color_mode and resize_batch raise TypeError, at their first *)
(* check, when the first argument is not a numpy array, whatever the mode, *)
(* size and interpolation are and whether or not torchvision is there;     *)
(* nothing is returned and the primitive is not called.                    *)
(***************************************************************************)
C13_TypeErrorFirst ==
  (x.type # "ndarray") =>
    /\ pc \in {"ready", "resize_raised", "raised"}
    /\ pc = "resize_raised" =>
         /\ rz.exc = "TypeError"
         /\ rz.site = "array"
         /\ rr = NoArr
    /\ pc = "raised" =>
         /\ r1.exc = "TypeError"
         /\ r1.site = "array"
         /\ r1.arr = NoArr
    /\ calls = <<>>

C13_Witness ==
  /\ x.type = "list"
  /\ pc = "resize_raised"
  /\ rz.exc = "TypeError"
  /\ rz.size = TupleSize(<<-10, 10>>)
  /\ rz.interpolation = "invalid_mode"
  /\ ~TORCHVISION_AVAILABLE

(***************************************************************************)
(* C14: for an array, a size that is an int s asks for (s, s) and a        *)
(* 2-tuple for (height, width); any other size raises ValueError, and so   *)
(* does a target dimension <= 0, without a call of the primitive; a        *)
(* well-formed positive size is not refused, and the primitive is called   *)
(* with it.                                                                *)
(***************************************************************************)
C14_SizeArgument ==
  (ResizeCalled /\ x.type = "ndarray") =>
    /\ ~SizeValid(rz.size) =>
         /\ pc = "resize_raised"
         /\ rz.exc = "ValueError"
         /\ rz.site = "size"
         /\ calls = <<>>
    /\ SizeValid(rz.size) =>
         /\ rz.site # "size"
         /\ rz.target = RequestedSize(rz.size)
         /\ pc = "resized" =>
              /\ Len(calls) = 1
              /\ calls[1].size = RequestedSize(rz.size)

C14_Witness ==
  /\ pc = "resized"
  /\ rz.size = IntSize(3)
  /\ calls[1].size = <<3, 3>>
  /\ x.shape = <<1, 2, 1, 3>>

(***************************************************************************)
(* C15: for an array, an interpolation that is none of nearest,            *)
(* nearest_exact, bilinear, bicubic raises ValueError without a call of    *)
(* the primitive; each of the four names is accepted and handed to the     *)
(* primitive.                                                              *)
(***************************************************************************)
C15_InterpolationNames ==
  (ResizeCalled /\ x.type = "ndarray") =>
    /\ rz.interpolation \notin InterpolationNames =>
         /\ pc = "resize_raised"
         /\ rz.exc = "ValueError"
         /\ calls = <<>>
    /\ rz.interpolation \in InterpolationNames =>
         /\ rz.site # "interpolation"
         /\ (SizeValid(rz.size) /\ rz.fmt.ok /\ TORCHVISION_AVAILABLE) =>
              /\ pc = "resized"
              /\ Len(calls) = 1
              /\ calls[1].interpolation = rz.interpolation

C15_Witness ==
  /\ pc = "resize_raised"
  /\ rz.interpolation = "BILINEAR"
  /\ rz.exc = "ValueError"
  /\ rz.site = "interpolation"
  /\ rz.size = TupleSize(<<1, 2>>)
  /\ TORCHVISION_AVAILABLE

(***************************************************************************)
(* C16: the antialias flag given to the primitive is true iff the target   *)
(* height is below the source height or the target width below the source  *)
(* width, and the interpolation is bilinear or bicubic; the source size is *)
(* read from the spatial axes of the detected layout.                      *)
(***************************************************************************)
C16_AntialiasFlag ==
  (pc = "resized") =>
    /\ Len(calls) = 1
    /\ calls[1].antialias =
         (/\ \/ rz.target[1] < Extent(x.shape, rloc)[2]
             \/ rz.target[2] < Extent(x.shape, rloc)[3]
          /\ rz.interpolation \in {"bilinear", "bicubic"})

C16_Witness ==
  /\ pc = "resized"
  /\ x.shape = <<1, 3, 2, 2>>
  /\ rloc = "first"
  /\ rz.target = <<3, 1>>
  /\ rz.interpolation = "bicubic"
  /\ calls[1].antialias

(***************************************************************************)
(* C17: with a primitive that returns (N, C, target_h, target_w), the      *)
(* result is (N, target_h, target_w) for an (N, H, W) input, (N, target_h, *)
(* target_w, C) for (N, H, W, C) and (N, C, target_h, target_w) for        *)
(* (N, C, H, W); it has the input's dtype.                                 *)
(***************************************************************************)
C17_ResizedShape ==
  (pc = "resized") =>
    /\ rr.dtype = x.dtype
    /\ rr.shape =
         (IF rloc = None THEN <<x.shape[1], rz.target[1], rz.target[2]>>
          ELSE IF rloc = "last"
          THEN <<x.shape[1], rz.target[1], rz.target[2], x.shape[4]>>
          ELSE <<x.shape[1], x.shape[2], rz.target[1], rz.target[2]>>)

C17_Witness ==
  /\ pc = "resized"
  /\ x.dtype = "int16"
  /\ x.shape = <<1, 2, 2, 3>>
  /\ rloc = "last"
  /\ rz.target = <<1, 3>>
  /\ rr.shape = <<1, 1, 3, 3>>

(***************************************************************************)
(* C18: every value of the result lies in [0, 1] for a floating-point      *)
(* input and in [0, dtype_max] for an integer input other than uint8,      *)
(* whatever the primitive returned.                                        *)
(***************************************************************************)
\* bit patterns of non-negative floats are ordered as the floats are
ValueInRange(dtype, v) ==
  CASE dtype = "float32" -> v >= 0 /\ v <= 1065353216
    [] dtype = "uint16" -> v >= 0 /\ v <= 65535
    [] dtype = "int16" -> v >= 0 /\ v <= 32767
    [] dtype = "int32" -> v >= 0 /\ v <= 2147483647
    [] OTHER -> TRUE

C18_OutputInRange ==
  (pc = "resized") =>
    \A k \in 1..Size(rr.shape) : ValueInRange(x.dtype, Flat(mem, rr)[k])

\* shapes of supported layouts: rank 3, or rank 4 with an axis of size 1, 3, 4
DetectableShapes ==
  {shape \in ResizeShapes \cup DTypeShapes :
     \/ Len(shape) = 3
     \/ Len(shape) = 4 /\ (shape[2] \in {1, 3, 4} \/ shape[4] \in {1, 3, 4})}

(***************************************************************************)
(* C19: when torchvision is not available, a call with a valid array,      *)
(* size and interpolation raises ImportError; the primitive is not called  *)
(* and nothing is returned.                                                *)
(***************************************************************************)
C19_ImportError ==
  (ResizeCalled /\ ~TORCHVISION_AVAILABLE) =>
    /\ pc = "resize_raised"
    /\ calls = <<>>
    /\ rr = NoArr
    /\ (/\ x.type = "ndarray"
        /\ x.shape \in DetectableShapes
        /\ SizeValid(rz.size)
        /\ rz.interpolation \in InterpolationNames) =>
         /\ rz.exc = "ImportError"
         /\ rz.site = "torchvision"

C19_Witness ==
  /\ pc = "resize_raised"
  /\ rz.exc = "ImportError"
  /\ x.shape = <<1, 2, 2, 3>>
  /\ x.dtype = "uint8"
  /\ rz.size = IntSize(1)
  /\ rz.interpolation = "nearest"
  /\ calls = <<>>

(***************************************************************************)
(* C20: notify(message) calls send_notification(message) once for each     *)
(* entry of the registry, in registration order, whether or not earlier    *)
(* calls raised; notify itself does not raise, and with an empty registry  *)
(* it calls no service.                                                    *)
(***************************************************************************)
C20_NotifyAllInOrder ==
  (op.name = "notify") =>
    /\ op.exc = "none"
    /\ Len(sends) = Len(services)
    /\ \A i \in 1..Len(services) :
         /\ sends[i].service = services[i]
         /\ sends[i].message = op.args[1]

C20_Witness ==
  /\ op.name = "notify"
  /\ services = <<2, 1, 2>>
  /\ Len(sends) = 3
  /\ sends[1].raised
  /\ ~sends[2].raised
  /\ sends[3].raised
  /\ op.exc = "none"

(***************************************************************************)
(* C21: remove_service(s) raises ValueError and leaves the registry as it  *)
(* was when s is not registered; otherwise it removes the first occurrence *)
(* of s and keeps the order of the other entries.  add_service appends,    *)
(* clear_services empties the registry, and get_services returns the class *)
(* names of the entries in registry order without changing the registry.   *)
(***************************************************************************)
Registered(registry, service) ==
  \E i \in 1..Len(registry) : registry[i] = service

FirstOccurrence(registry, service) ==
  CHOOSE i \in 1..Len(registry) :
    /\ registry[i] = service
    /\ \A j \in 1..(i - 1) : registry[j] # service

RegistryStep ==
  /\ (op'.name = "add_service") =>
        /\ op'.exc = "none"
        /\ Len(services') = Len(services) + 1
        /\ services'[Len(services')] = op'.args[1]
        /\ \A k \in 1..Len(services) : services'[k] = services[k]
  /\ (op'.name = "remove_service" /\ ~Registered(services, op'.args[1])) =>
        /\ op'.exc = "ValueError"
        /\ services' = services
  /\ (op'.name = "remove_service" /\ Registered(services, op'.args[1])) =>
        LET i == FirstOccurrence(services, op'.args[1])
        IN /\ op'.exc = "none"
           /\ Len(services') = Len(services) - 1
           /\ \A k \in 1..(i - 1) : services'[k] = services[k]
           /\ \A k \in i..Len(services') : services'[k] = services[k + 1]
  /\ (op'.name = "clear_services") =>
        /\ op'.exc = "none"
        /\ services' = <<>>
  /\ (op'.name = "get_services") =>
        /\ op'.exc = "none"
        /\ services' = services
        /\ Len(op'.ret) = Len(services)
        /\ \A k \in 1..Len(services) : op'.ret[k] = ClassName(services[k])

C21_RemoveServiceKeepsOrder == [][RegistryStep]_vars

\* the service registered first and last has just been removed: the entry
\* registered last is the one that remains
C21_Witness ==
  /\ op.name = "remove_service"
  /\ op.args = <<2>>
  /\ op.exc = "none"
  /\ services = <<1, 2>>

(***************************************************************************)
(* C22: an Email constructed without an smtp_port argument has, as its     *)
(* smtp_port, the number in the SMTP_PORT environment variable when that   *)
(* variable is set, and 587 otherwise.                                     *)
(***************************************************************************)
EmailConstructed == pc = "email" /\ email # NoEmail /\ email.exc = "none"

PortOmitted == "smtp_port" \notin DOMAIN email.kwargs

C22_PortFromEnvironment ==
  (EmailConstructed /\ PortOmitted) =>
    IF "SMTP_PORT" \in DOMAIN environ
    THEN IntOfStr(environ["SMTP_PORT"]).exc = "none"
         => email.smtp_port = IntOfStr(environ["SMTP_PORT"]).val
    ELSE email.smtp_port = IntSize(587)

(***************************************************************************)
(* C23 as claimed: for a grayscale batch x, ensure_color_mode(x, "RGBA")   *)
(* equals ensure_color_mode(ensure_color_mode(x, "RGB"), "RGBA"), and for  *)
(* an RGBA batch x, ensure_color_mode(x, "GRAY") equals                    *)
(* ensure_color_mode(ensure_color_mode(x, "RGB"), "GRAY"), in shape, dtype *)
(* and values, for every layout.                                           *)
(***************************************************************************)
\* x was converted to RGB and the result onward to the mode target
RoutedThroughRgb(current, target) ==
  /\ pc \in {"onward", "onward_raised"}
  /\ r1.cur = current
  /\ r1.target = RGB
  /\ r2.target = target

\* the second call returned what the call ensure_color_mode(x, mode) returns
SameAsDirect(mode) ==
  LET res == CallWith(mode)
  IN /\ r2.exc = "none"
     /\ res.exc = "none"
     /\ z.shape = res.arr.shape
     /\ z.dtype = res.arr.dtype
     /\ Flat(mem, z) = Flat(res.mem, res.arr)

Detected == pc \in {"returned", "raised"} /\ r1.fmt.ok

NoChannelLocation ==
  /\ ~r1.fmt.is_grayscale
  /\ r1.fmt.channel_location \notin {"first", "last"}

UnsupportedChannelCount ==
  /\ ~r1.fmt.is_grayscale
  /\ r1.fmt.channel_location \in {"first", "last"}
  /\ CurrentChannels(x, r1.fmt.channel_location) \notin ChannelSizes

C24_InconsistentFormatRaises ==
  (Detected /\ (NoChannelLocation \/ UnsupportedChannelCount)) =>
    /\ pc = "raised"
    /\ r1.exc = "ValueError"
    /\ r1.arr = NoArr
    /\ r1.cur = NoMode
    /\ mem = MemBefore
    /\ Flat(mem, x) = x0

C24_Witness ==
  /\ Detected
  /\ NoChannelLocation
  /\ x.shape = <<1, 2, 2, 3>>
  /\ arg = RGB
  /\ r1.site = "channel_location"
  /\ pc = "raised"

(***************************************************************************)
(* Vocabulary of the properties of the call of the resampling primitive.   *)
(***************************************************************************)
\* the tensor handed to the primitive, and the tensor it returned
tensor == calls[1].tensor

resized == calls[1].resized

\* the index in the input of the element idx of an (N, C, H, W) tensor
InputIndex(idx, channel_location) ==
  IF channel_location = "last" THEN <<idx[1], idx[3], idx[4], idx[2]>>
  ELSE IF channel_location = "first" THEN idx
  ELSE <<idx[1], idx[3], idx[4]>>

\* the input is an integer batch other than uint8
Renormalized == IntegerDType(x.dtype) /\ x.dtype # "uint8"

\* float32(dtype's maximum)
DTypeMax == IntToF32(IInfoMax(x.dtype))

\* the k-th element of the primitive's output times the maximum, clamped
\* to [0, maximum]
Rescaled(k) == Clip(F32Mul(F32OfBits(mem[resized.buf][k]), DTypeMax), FZero, DTypeMax)

(***************************************************************************)
(* C25: for an integer input other than uint8 the tensor given to the      *)
(* primitive is float32 and holds each input value divided by the dtype's  *)
(* maximum, and each value of the result is the primitive's output times   *)
(* that maximum (clamped, then cast); for uint8 and float32 inputs the     *)
(* tensor holds the input values themselves, and the result holds the      *)
(* primitive's output without any multiplication (a float32 result being   *)
(* clamped to [0, 1]).                                                     *)
(***************************************************************************)
C25_RenormalizedExactlyOtherIntegers ==
  (pc = "resized") =>
    /\ Len(calls) = 1
    /\ Size(rr.shape) = Size(resized.shape)
    /\ Renormalized =>
         /\ tensor.dtype = "float32"
         /\ \A idx \in Indices(tensor.shape) :
              At(mem, tensor, idx) =
                F32Bits(F32Div(IntToF32(At(mem, x, InputIndex(idx, rloc))),
                               DTypeMax))
         /\ \A k \in 1..Size(resized.shape) :
              InRange(x.dtype, Rescaled(k)) =>
                mem[rr.buf][k] = F32Trunc(Rescaled(k))
    /\ ~Renormalized =>
         /\ tensor.dtype = x.dtype
         /\ \A idx \in Indices(tensor.shape) :
              At(mem, tensor, idx) = At(mem, x, InputIndex(idx, rloc))
         /\ \A k \in 1..Size(resized.shape) :
              mem[rr.buf][k] =
                IF x.dtype = "uint8" THEN mem[resized.buf][k]
                ELSE F32Bits(Clip(F32OfBits(mem[resized.buf][k]), FZero,
                                  IntToF32(1)))

C25_Witness ==
  /\ pc = "resized"
  /\ x.dtype = "int16"
  /\ x.shape = <<1, 2, 2, 3>>
  /\ tensor.dtype = "float32"
  /\ At(mem, x, <<0, 0, 1, 0>>) = 32767
  /\ At(mem, tensor, <<0, 0, 0, 1>>) = F32Bits(IntToF32(1))
  /\ mem[resized.buf][1] = F32Bits(IntToF32(1))
  /\ mem[rr.buf][1] = 32767

(***************************************************************************)
(* C26: the tensor given to the primitive is (N, C, H, W): an (N, H, W, C) *)
(* input transposed, an (N, H, W) input with a singleton channel axis, an  *)
(* (N, C, H, W) input as it is, each value at the corresponding index; and *)
(* when the primitive returns its input unchanged for a uint8 batch, the   *)
(* result has the input's shape and every value at its original index.     *)
(***************************************************************************)
\* (N, C, H, W) of a batch laid out as channel_location says
Canonical(shape, channel_location) ==
  IF channel_location = "last" THEN <<shape[1], shape[4], shape[2], shape[3]>>
  ELSE IF channel_location = "first" THEN shape
  ELSE <<shape[1], 1, shape[2], shape[3]>>

\* the primitive returned a tensor equal to the one it was given
PrimitiveKept ==
  /\ resized.shape = tensor.shape
  /\ Flat(mem, resized) = Flat(mem, tensor)

C26_CanonicalLayoutAndBack ==
  (pc = "resized") =>
    /\ Len(calls) = 1
    /\ Len(tensor.shape) = 4
    /\ tensor.shape = Canonical(x.shape, rloc)
    /\ (~Renormalized) =>
         \A idx \in Indices(tensor.shape) :
           At(mem, tensor, idx) = At(mem, x, InputIndex(idx, rloc))
    /\ (PrimitiveKept /\ x.dtype = "uint8") =>
         /\ rr.shape = x.shape
         /\ rr.dtype = x.dtype
         /\ \A idx \in Indices(x.shape) : At(mem, rr, idx) = At(mem, x, idx)

C26_Witness ==
  /\ pc = "resized"
  /\ x.dtype = "uint8"
  /\ x.shape = <<1, 2, 2, 3>>
  /\ rloc = "last"
  /\ tensor.shape = <<1, 3, 2, 2>>
  /\ PrimitiveKept
  /\ rr.shape = <<1, 2, 2, 3>>
  /\ Flat(mem, rr) = x0
  /\ Flat(mem, tensor) # x0

(***************************************************************************)
(* C27: a call of ensure_color_mode or resize_batch, whether it returns or *)
(* raises, leaves its input as it was: the caller's array keeps its shape, *)
(* dtype, strides and buffer, and no element of that buffer (nor of any    *)
(* other buffer that existed before the call) changes.                     *)
(***************************************************************************)
InputKept ==
  /\ x' = x
  /\ Len(mem') >= Len(mem)
  /\ \A b \in 1..Len(mem) : mem'[b] = mem[b]
  /\ (x.type = "ndarray") => Flat(mem', x') = Flat(mem, x)

C27_InputReadOnly == [][InputKept]_vars

C27_Witness ==
  /\ pc = "resized"
  /\ x.dtype = "int16"
  /\ x.shape = <<1, 2, 2, 3>>
  /\ Len(mem) = 4
  /\ mem[x.buf] = x0
  /\ mem[tensor.buf] # x0
  /\ Flat(mem, rr) # x0

(***************************************************************************)
(* C28: resize_batch reports the first failure in the order: array type    *)
(* (TypeError), size (ValueError), format detection, interpolation         *)
(* (ValueError), availability of torchvision (ImportError); with none of   *)
(* them it returns.  So an invalid size or interpolation gives ValueError  *)
(* even when torchvision is unavailable.                                   *)
(***************************************************************************)
\* <<exception, site>> of the first check that fails, <<"none", "none">> if
\* every check passes; a failed detection is known by its site only
FirstFailure ==
  IF x.type # "ndarray" THEN <<"TypeError", "array">>
  ELSE IF ~SizeValid(rz.size) THEN <<"ValueError", "size">>
  ELSE IF x.shape \notin DetectableShapes THEN <<rz.exc, "detect_format">>
  ELSE IF rz.interpolation \notin InterpolationNames
  THEN <<"ValueError", "interpolation">>
  ELSE IF ~TORCHVISION_AVAILABLE THEN <<"ImportError", "torchvision">>
  ELSE <<"none", "none">>

C28_FirstFailureReported ==
  ResizeCalled =>
    /\ <<rz.exc, rz.site>> = FirstFailure
    /\ (pc = "resize_raised") = (rz.exc # "none")
    /\ (rz.exc # "none") => (calls = <<>> /\ rr = NoArr)
    /\ (/\ x.type = "ndarray"
        /\ ~TORCHVISION_AVAILABLE
        /\ ~SizeValid(rz.size) \/ rz.interpolation \notin InterpolationNames
        /\ x.shape \in DetectableShapes) =>
         rz.exc = "ValueError"

C28_Witness ==
  /\ pc = "resize_raised"
  /\ ~TORCHVISION_AVAILABLE
  /\ x.shape = <<1, 2, 2, 3>>
  /\ rz.size = IntSize(1)
  /\ rz.interpolation = "invalid_mode"
  /\ rz.exc = "ValueError"
  /\ rz.site = "interpolation"

====
